---- MODULE Spec2Model ----
(***************************************************************************)
(* The story-creation wizard of src/pages/StoryWizard.tsx as a state       *)
(* machine: the wizard step, the collected values, the interaction mode,   *)
(* the idle counter driven by a one-second interval, the suggestion list,  *)
(* the auto-select candidate and the generation requests in flight.        *)
(*                                                                         *)
(* One action models one handler together with the render and the effects  *)
(* that follow it (React batches the state updates of one handler).        *)
(*                                                                         *)
(* Spec is the wizard with its idle timer.  The other specifications share *)
(* its variables and its handlers:                                         *)
(*   ServiceSpec  the functions of the generation service                  *)
(*   VoiceSpec    the voice button with its session and its cleanup, and   *)
(*                the wizard's handlers that need no timer                 *)
(*   AppSpec      the views of App around the wizard                       *)
(*   EnterSpec    the wizard used with the keyboard alone, Enter pressed   *)
(*                in the empty text field included                         *)
(*   ReaderSpec   the story reader: pages, narration and the PDF export    *)
(*   EditorSpec   the story editor between the library and Save or Discard *)
(*   AccountSpec  logout and login around the library                      *)
(*   IdleSpec     the wizard while the user is there and after the user    *)
(*                has left, fair to the interval and to the responses      *)
(***************************************************************************)
EXTENDS Naturals, Sequences, FiniteSets, Bags, TLC

\* ------------------------------------------------------------------------
\* Bounds of the model
\* ------------------------------------------------------------------------

\* The idle counter is unbounded in the code; ticks stop at this value.
MaxTimer == 72

\* At the time step, the third of the three steps that collect a value with
\* the same handlers, the wizard as a whole follows the idle counter up to
\* this value: the options are shown there and can be clicked, the
\* confirmation card and the automatic selection are followed at the
\* character and place steps.
MaxTimeTimer == 30

\* Generation requests that may be in flight at the same time.
MaxPending == 2

\* Length of the free-text field, in tokens.
MaxText == 1

\* ------------------------------------------------------------------------
\* Program constants
\* ------------------------------------------------------------------------

\* enum WizardStep
AGE_SELECTION == 0
CHARACTER == 1
PLACE == 2
TIME == 3
PLOT == 4
PREVIEW == 5

\* Thresholds of the idle timer effect
OptionsAt == 30
ConfirmationAt == 60
AutoSelectAt == 70

\* const activeSteps = [CHARACTER, PLACE, TIME]
activeSteps == {CHARACTER, PLACE, TIME}

\* enum AgeGroup.  The age group only enters the prompts sent to the service;
\* one of the three values is kept.
AgeGroups == {"5-7"}

\* ------------------------------------------------------------------------
\* Values
\* ------------------------------------------------------------------------

\* Text is a sequence of tokens; a token is a character or a whole word.
EmptyText == << >>

\* JavaScript's null and undefined, as a text and as an image reference.
NullText == <<"null">>
UndefinedText == <<"undefined">>
NullUrl == "null"
UndefinedUrl == "undefined"

\* What the user can have in the text field by typing: nothing, or the word
\* that is also the second suggestion.
TypedTexts == {EmptyText, <<"owl">>}

\* What the transcription service can send: a word, or white space only.
VoiceFragments == {<<"owl">>, <<" ">>}

\* Image references that generateImage can return.  The data URI and the
\* placeholder URL are both non-empty strings and the wizard treats them
\* alike; one reference stands for both.
Images == {"data:image"}

\* Lists that generateSuggestions can return.
SuggestionLists == { << <<"fox">>, <<"owl">> >> }

\* '' as an image reference
EmptyUrl == ""

\* interface OptionCard
OptionCard(l, u, ld) == [label |-> l, imageUrl |-> u, loading |-> ld]

\* null as a value of type OptionCard | null
NullCard == OptionCard(NullText, NullUrl, FALSE)

\* undefined as an element of OptionCard[] (an index that holds nothing)
UndefinedCard == OptionCard(UndefinedText, UndefinedUrl, FALSE)

\* { label: "Magic Friend", imageUrl: null, loading: false }
MagicFriend == OptionCard(<<"Magic Friend">>, NullUrl, FALSE)

\* JavaScript truthiness of an OptionCard | null | undefined
Truthy(card) == card # NullCard /\ card # UndefinedCard

\* { description, imageUrl } | null
Value(d, u) == [description |-> d, imageUrl |-> u]
NullValue == Value(NullText, NullUrl)

\* A generation request in flight.  type is "suggestions" (generateSuggestions
\* awaited by handleShowOptions), "optionImage" (generateImage awaited for the
\* option at position index, counted from 0) or "selection" (generateImage
\* awaited by handleSelection for the value text; field is the step of the
\* render that called handleSelection, which decides the field to store).
\* The prompt of a request has no influence on what its response does to the
\* wizard and is not recorded.
Request(type, field, index, text) ==
  [type |-> type, field |-> field, index |-> index, text |-> text]

\* A call of a function of the generation service: the function, its
\* argument, what the model behind it did, and the value returned.
Call(op, arg, response, result) ==
  [op |-> op, arg |-> arg, response |-> response, result |-> result]

NoCall == Call("none", << >>, << >>, << >>)

\* ------------------------------------------------------------------------
\* State
\* ------------------------------------------------------------------------

VARIABLES
  step,                \* state.step
  ageGroup,            \* state.ageGroup ("null" before the age is chosen)
  character,           \* state.character
  place,               \* state.place
  time,                \* state.time (a text, or NullText)
  isLoading,
  inactivityTimer,
  mode,
  suggestedOptions,
  autoSelectCandidate,
  currentPoints,       \* points above user.points
  newBadge,            \* id of the badge being shown, or "null"
  tempInput,
  closureOptions,      \* suggestedOptions as seen by the interval callback
  closureCandidate,    \* autoSelectCandidate as seen by the interval callback
  pending,             \* bag of the requests in flight
  pristine,            \* history: no user event since the step was entered
  sinceActivity,       \* history: ticks since the user last typed, spoke,
                       \* selected or, in input mode, touched the window
                       \* (counted up to OptionsAt)
  generatedPages,      \* state.generatedPages
  issued,              \* history: bag of the badges handed to setNewBadge
  alerts,              \* history: number of calls of alert()
  lastCall,            \* the service call of ServiceSpec that returned last
  previousCall,        \* the one that returned before it
  plotInput,           \* state.plotInput
  away,                \* the user has left the wizard to itself
  view,                \* App's view
  orphaned,            \* bag of the requests in flight of unmounted wizards
  stories,             \* App's stories
  mounted,             \* a VoiceInput is rendered; the variables down to
                       \* awaitingSession belong to that instance
  isRecording,
  isConnecting,
  refs,                \* streamRef, processorRef, sourceRef and sessionRef:
                       \* TRUE when .current is not null; audioContextRef:
                       \* "null", or the state of the context it refers to,
                       \* "open" or "closing" (close() called, not resolved)
  starting,            \* where startRecording is: "idle" (not running) or
                       \* "getUserMedia" (awaiting it)
  session,             \* the session sessionRef was last set to: "none"
                       \* (never connected, or closed), "connecting" or
                       \* "open"
  handlerStep,         \* state.step of the render whose handleVoiceInput
                       \* the session calls
  closing,             \* calls of cleanup awaiting audioContext.close()
  awaitingSession,     \* a call of cleanup awaits the connecting session
  lingering,           \* open sessions that no sessionRef refers to, each
                       \* given by the state.step of its handleVoiceInput
  detached,            \* calls of startRecording of unmounted instances
                       \* that await getUserMedia, given in the same way
  voiceAlerts,         \* history: calls of alert() by VoiceInput
  starts,              \* history: calls of startRecording
  outcome,             \* history: how the last startRecording ended
  heard,               \* history: the fragments passed to onTextReceived
  currentStory,        \* App's currentStory, or NullStory
  currentPage,         \* StoryReader
  selectedVoice,
  isPlaying,
  isLoadingAudio,
  isDownloading,
  sourceNode,          \* sourceNodeRef.current is not null
  exporting,           \* generatePDF called by the reader shown: "none",
                       \* "running", or settled as "saved" or "rejected"
                       \* with handleDownload about to go on
  speaking,            \* generateSpeech called by the reader shown is running
  stray,               \* calls of generatePDF and generateSpeech running for
                       \* readers that are gone
  downloads,           \* history: clicks on the download button
  exports,             \* history: calls of generatePDF
  plays,               \* history: calls of generateSpeech
  readerAlerts,        \* history: calls of alert() by StoryReader, by message
  audioContext,        \* audioContextRef.current of the reader: "null" or
                       \* "open"
  speechFor,           \* the page and the voice generateSpeech was called
                       \* with by the reader shown, or NoNarration
  playingFor,          \* the page and the voice of the source that is
                       \* sounding, or NoNarration
  user,                \* App's user: its id, or 0 for null
  logins,              \* history: calls of handleLogin
  editedStory,         \* StoryEditor, or NullStory when none is rendered
  activeTab,
  currentPageIndex,
  isRegenerating,
  regenerating,        \* the regeneration awaited by the editor shown: what
                       \* was asked for and the currentPageIndex of the
                       \* render that asked, or NoRegeneration
  edits                \* history: changes made and regenerations started
                       \* in the editors

wizard == <<step, ageGroup, character, place, time>>
ui == <<isLoading, inactivityTimer, mode, suggestedOptions, autoSelectCandidate,
        currentPoints, newBadge, tempInput>>
closure == <<closureOptions, closureCandidate>>
history == <<pristine, sinceActivity>>
story == <<generatedPages, alerts>>
service == <<lastCall, previousCall>>
shell == <<view, orphaned, stories, user, logins>>
voice == <<mounted, isRecording, isConnecting, refs, starting, session, handlerStep, closing,
           awaitingSession, lingering, detached, voiceAlerts, starts, outcome, heard>>

\* What the handlers of the wizard leave alone
reader == <<currentStory, currentPage, selectedVoice, isPlaying, isLoadingAudio, isDownloading,
            sourceNode, exporting, speaking, stray, downloads, exports, plays, readerAlerts,
            audioContext, speechFor, playingFor>>
editor == <<editedStory, activeTab, currentPageIndex, isRegenerating, regenerating, edits>>
rest == <<service, plotInput, away, shell, voice, reader, editor>>

vars == <<wizard, ui, closure, pending, history, story, issued, rest>>

\* useRef(null) five times
NoRefs ==
  [audioContext |-> "null", stream |-> FALSE, processor |-> FALSE, source |-> FALSE,
   session |-> FALSE]

\* A VoiceInput as useState and useRef construct it.
VoiceConstructed ==
  /\ isRecording = FALSE
  /\ isConnecting = FALSE
  /\ refs = NoRefs
  /\ starting = "idle"
  /\ session = "none"
  /\ handlerStep = AGE_SELECTION
  /\ closing = 0
  /\ awaitingSession = FALSE

\* null as a value of type Story | null: currentStory of App before a story
\* is opened
NullStory == [id |-> 0]

\* VOICES
VOICES == {"Kore", "Puck", "Fenrir"}

\* No page is being narrated, and none is asked for.
NoNarration == [text |-> NullText, voice |-> "null"]

\* A StoryReader as useState and useRef construct it.
ReaderConstructed ==
  /\ currentPage = 0
  /\ selectedVoice = "Kore"
  /\ isPlaying = FALSE
  /\ isLoadingAudio = FALSE
  /\ isDownloading = FALSE
  /\ sourceNode = FALSE
  /\ exporting = "none"
  /\ speaking = FALSE
  /\ audioContext = "null"
  /\ speechFor = NoNarration
  /\ playingFor = NoNarration

\* The editor awaits nothing.
NoRegeneration == [what |-> "none", index |-> 0]

\* No StoryEditor is rendered.
NoEditor ==
  /\ editedStory = NullStory
  /\ activeTab = "cover"
  /\ currentPageIndex = 0
  /\ isRegenerating = FALSE
  /\ regenerating = NoRegeneration

\* The wizard as useState constructs it; no voice button is rendered at
\* the age selection.
Constructed ==
  /\ step = AGE_SELECTION
  /\ ageGroup = "null"
  /\ character = NullValue
  /\ place = NullValue
  /\ time = NullText
  /\ isLoading = FALSE
  /\ inactivityTimer = 0
  /\ mode = "input"
  /\ suggestedOptions = << >>
  /\ autoSelectCandidate = NullCard
  /\ currentPoints = 0            \* user.points of a new user
  /\ newBadge = "null"
  /\ tempInput = EmptyText
  /\ closureOptions = << >>
  /\ closureCandidate = NullCard
  /\ pending = EmptyBag
  /\ pristine = FALSE
  /\ sinceActivity = 0
  /\ generatedPages = << >>
  /\ issued = EmptyBag
  /\ alerts = 0
  /\ lastCall = NoCall
  /\ previousCall = NoCall
  /\ plotInput = EmptyText
  /\ away = FALSE
  /\ orphaned = EmptyBag
  /\ mounted = FALSE
  /\ VoiceConstructed
  /\ lingering = {}
  /\ detached = {}
  /\ voiceAlerts = 0
  /\ starts = 0
  /\ outcome = "none"
  /\ heard = << >>
  /\ ReaderConstructed
  /\ NoEditor
  /\ edits = 0
  /\ stray = [pdf |-> 0, speech |-> 0, muted |-> 0, audio |-> 0]
  /\ downloads = 0
  /\ exports = 0
  /\ plays = 0
  /\ readerAlerts = [pdf |-> 0, audio |-> 0]

\* The wizard has just been opened from the dashboard.
Init ==
  /\ Constructed
  /\ user = 1 /\ logins = 1
  /\ view = "create" /\ currentStory = NullStory /\ stories = << >>

\* ------------------------------------------------------------------------
\* Helpers
\* ------------------------------------------------------------------------

\* state[field] for the field of step s
FieldOf(s) ==
  CASE s = CHARACTER -> character
    [] s = PLACE -> place
    [] s = TIME -> Value(time, NullUrl)
    [] OTHER -> NullValue

\* Faulty variant of hasValue: text in the text field counts as a value.
hasValueOrTyped == FieldOf(step).description # NullText \/ tempInput # EmptyText

\* const hasValue = state[field] !== null, for the field of the current step
hasValue == FieldOf(step).description # NullText

\* Faulty variant of TimerRunning: the effect does not look at isLoading.
TimerRunningWhileLoading == step \in activeSteps

\* The guard of the idle timer effect: the interval and the window listeners
\* exist exactly while it holds.
TimerRunning == ~isLoading /\ step \in activeSteps

\* The text field and the voice button of renderInputStep are rendered.
TextFieldShown == step \in activeSteps /\ ~hasValue /\ mode # "confirmation"

\* The voice button has just been unmounted by the escalation to confirmation
\* mode.  VoiceInput's cleanup closes the session of a recording only after
\* it has awaited audioContext.close(), and until then the session delivers
\* the fragments that arrive to the handleVoiceInput it was started with.  Of
\* the fragments that arrive after an unmount, this specification has the
\* one that follows the escalation, before the next tick; VoiceSpec has the
\* others.
VoiceClosing ==
  /\ step \in activeSteps /\ ~hasValue
  /\ mode = "confirmation" /\ inactivityTimer = ConfirmationAt

Room(n) == BagCardinality(pending) + n <= MaxPending

Issue(r) == pending (+) SetToBag({r})
Settle(r) == pending (-) SetToBag({r})

\* suggestedOptions[0] of JavaScript: undefined when the array is empty.
First(options) == IF Len(options) = 0 THEN UndefinedCard ELSE options[1]

\* JavaScript falsiness of an image reference (string | null | undefined)
Falsy(u) == u \in {NullUrl, UndefinedUrl, EmptyUrl}

\* x || undefined, for an image reference
OrUndefined(u) == IF Falsy(u) THEN UndefinedUrl ELSE u

\* The timer effect depends on [state.step, mode, isLoading, tempInput]: when
\* one of them changed in the render that follows a handler, the effect runs
\* again and the new interval callback closes over that render's
\* suggestedOptions and autoSelectCandidate; otherwise the old callback, with
\* the values of its own render, stays installed.
\*
\* The callback reads its suggestedOptions only in options mode and its
\* autoSelectCandidate only in confirmation mode, and every entry into
\* either mode changes mode and so installs a new callback: outside these
\* modes the two variables hold the empty list and null.
\*
\* event feeds the history variables only: "tick" for the interval,
\* "activity" for the window listener, "input" for a user's handler that
\* calls setInactivityTimer(0), "user" for any other handler of the user and
\* "response" for the continuation of an await.
AfterRender(event) ==
  /\ LET changed == <<step', mode', isLoading', tempInput'>> # <<step, mode, isLoading, tempInput>>
     IN  /\ closureOptions' = IF mode' # "options" THEN << >>
                              ELSE IF changed THEN suggestedOptions' ELSE closureOptions
         /\ closureCandidate' = IF mode' # "confirmation" THEN NullCard
                                ELSE IF changed THEN autoSelectCandidate' ELSE closureCandidate
  /\ pristine' = IF step' # step THEN TRUE
                 ELSE IF event \in {"activity", "input", "user"} THEN FALSE
                 ELSE pristine
  /\ sinceActivity' = IF event = "input" \/ (event = "activity" /\ mode = "input") THEN 0
                      ELSE IF event = "tick" /\ sinceActivity < OptionsAt THEN sinceActivity + 1
                      ELSE sinceActivity

\* ------------------------------------------------------------------------
\* handleVoiceInput's appendText
\* ------------------------------------------------------------------------

Whitespace == {" "}
Punctuation == {".", ",", "!", "?", ";", ":"}

RECURSIVE TrimStart(_)
TrimStart(t) == IF t # << >> /\ Head(t) \in Whitespace THEN TrimStart(Tail(t)) ELSE t

RECURSIVE TrimEnd(_)
TrimEnd(t) ==
  IF t # << >> /\ t[Len(t)] \in Whitespace THEN TrimEnd(SubSeq(t, 1, Len(t) - 1)) ELSE t

\* String.prototype.trim
Trim(t) == TrimEnd(TrimStart(t))

appendText(current, newText) ==
  LET cleanNew == Trim(newText)
      needsSpace == /\ Len(current) > 0
                    /\ current[Len(current)] \notin Whitespace
                    /\ Head(cleanNew) \notin Punctuation
  IN  IF cleanNew = << >> THEN current
      ELSE current \o (IF needsSpace THEN <<" ">> ELSE << >>) \o cleanNew

\* ------------------------------------------------------------------------
\* Handlers called by the timer and by the user
\* ------------------------------------------------------------------------

\* The try and finally blocks of handleSelection.  With a pre-generated
\* image, or at the time step, the function runs to its end without
\* awaiting: the value is stored and the finally block runs in the same
\* batch, so isLoading is never seen true.  Otherwise it stops at
\* "await generateImage" with isLoading set; SelectionResponse is its
\* continuation.
storeSelection(choice, preGeneratedImage) ==
  IF step \in {CHARACTER, PLACE} /\ Falsy(preGeneratedImage)
  THEN /\ Room(1)
       /\ pending' = Issue(Request("selection", step, 0, choice))
       /\ isLoading' = TRUE
       /\ UNCHANGED <<character, place, time, tempInput>>
  ELSE /\ character' = IF step = CHARACTER THEN Value(choice, preGeneratedImage) ELSE character
       /\ place' = IF step = PLACE THEN Value(choice, preGeneratedImage) ELSE place
       /\ time' = IF step = TIME THEN choice ELSE time
       /\ isLoading' = FALSE
       /\ tempInput' = EmptyText
       /\ UNCHANGED pending

\* Faulty variants of commitSelection: one also moves to the next step, one
\* leaves the mode as it is.
commitSelectionAdvancing(choice, preGeneratedImage) ==
  /\ mode' = "input"
  /\ step' = step + 1
  /\ UNCHANGED ageGroup
  /\ storeSelection(choice, preGeneratedImage)

commitSelectionKeepingMode(choice, preGeneratedImage) ==
  /\ UNCHANGED <<mode, step, ageGroup>>
  /\ storeSelection(choice, preGeneratedImage)

\* handleSelection after its first statement, setInactivityTimer(0): the
\* mode returns to input, the value is stored or requested, and the step is
\* not touched.
commitSelection(choice, preGeneratedImage) ==
  /\ mode' = "input"
  /\ UNCHANGED <<step, ageGroup>>
  /\ storeSelection(choice, preGeneratedImage)

handleSelection(choice, preGeneratedImage) ==
  /\ inactivityTimer' = 0
  /\ commitSelection(choice, preGeneratedImage)

\* The candidate that handleShowConfirmation picks from the suggestion list
\* it sees.
confirmationCandidate(options) ==
  IF Truthy(First(options)) THEN First(options) ELSE MagicFriend

\* The arguments that handleAutoSelect passes to handleSelection.
autoSelectChoice(candidate) ==
  IF candidate # NullCard
  THEN <<candidate.label, OrUndefined(candidate.imageUrl)>>
  ELSE <<MagicFriend.label, UndefinedUrl>>

\* Faulty variants of activityTimer: the listener resets the counter in
\* every mode, or in none.
activityTimerAnyMode(m, t) == 0
activityTimerNever(m, t) == t

\* The window listener: if (mode === 'input') setInactivityTimer(0)
activityTimer(m, t) == IF m = "input" THEN 0 ELSE t

\* Faulty variants of checkBadges: the two badges are exchanged, or the
\* time step hands out a badge as well.
checkBadgesSwapped(s) ==
  IF s = CHARACTER THEN "world_builder"
  ELSE IF s = PLACE THEN "char_creator"
  ELSE newBadge

checkBadgesEveryStep(s) ==
  IF s = CHARACTER THEN "char_creator" ELSE "world_builder"

\* checkBadges: the badge shown after confirming step s
checkBadges(s) ==
  IF s = CHARACTER THEN "char_creator"
  ELSE IF s = PLACE THEN "world_builder"
  ELSE newBadge

\* Faulty variant of setOptionImage: an image for a position that the list
\* no longer has is dropped.
setOptionImageInRange(options, index, url) ==
  [i \in 1..Len(options) |->
     IF i = index + 1 /\ options[i] # UndefinedCard
     THEN OptionCard(options[i].label, url, FALSE)
     ELSE options[i]]

\* next[index] = { ...next[index], imageUrl: url, loading: false } on a copy
\* of the list: an index past the end extends the array, the positions in
\* between hold undefined, and the new entry has no label.
setOptionImage(options, index, url) ==
  [i \in 1..(IF index + 1 > Len(options) THEN index + 1 ELSE Len(options)) |->
     IF i = index + 1
     THEN IF i <= Len(options) /\ options[i] # UndefinedCard
          THEN OptionCard(options[i].label, url, FALSE)
          ELSE OptionCard(UndefinedText, url, FALSE)
     ELSE IF i <= Len(options) THEN options[i] ELSE UndefinedCard]

\* ------------------------------------------------------------------------
\* Actions
\* ------------------------------------------------------------------------

\* renderAgeSelection: a click on an age button.  The effect on [state.step]
\* clears tempInput.
SelectAge ==
  /\ step = AGE_SELECTION
  /\ \E age \in AgeGroups : ageGroup' = age
  /\ step' = CHARACTER
  /\ tempInput' = EmptyText
  /\ UNCHANGED <<character, place, time, isLoading, inactivityTimer, mode,
                 suggestedOptions, autoSelectCandidate, currentPoints, newBadge, pending>>
  /\ UNCHANGED <<story, issued, rest>>
  /\ AfterRender("user")

\* The interval callback: setInactivityTimer(prev => ...).  mode, tempInput
\* and the three handlers are those of the render in which the effect last
\* ran; mode and tempInput are dependencies of the effect and therefore
\* current, suggestedOptions and autoSelectCandidate are not.
\*
\* handleAutoSelect calls setInactivityTimer(0) from inside the updater that
\* then returns t.  An updater is required to be free of side effects, and
\* which of the two updates is applied last depends on whether the updater
\* is run when the update is queued or during the next render: the counter
\* ends at 0 or at t.
Tick ==
  /\ TimerRunning
  /\ inactivityTimer < MaxTimer
  /\ LET t == inactivityTimer + 1 IN
     IF t = OptionsAt /\ mode = "input" /\ tempInput = EmptyText
     THEN \* handleShowOptions, up to its await
          /\ Room(1)
          /\ mode' = "options"
          /\ pending' = Issue(Request("suggestions", 0, 0, EmptyText))
          /\ inactivityTimer' = t
          /\ UNCHANGED <<wizard, isLoading, suggestedOptions, autoSelectCandidate,
                         currentPoints, newBadge, tempInput>>
     ELSE IF t = ConfirmationAt /\ mode = "options"
     THEN \* handleShowConfirmation
          /\ mode' = "confirmation"
          /\ autoSelectCandidate' = confirmationCandidate(closureOptions)
          /\ inactivityTimer' = t
          /\ UNCHANGED <<wizard, isLoading, suggestedOptions, currentPoints, newBadge,
                         tempInput, pending>>
     ELSE IF t = AutoSelectAt /\ mode = "confirmation"
     THEN \* handleAutoSelect
          /\ LET args == autoSelectChoice(closureCandidate)
             IN  commitSelection(args[1], args[2])
          /\ inactivityTimer' \in {0, t}
          /\ UNCHANGED <<suggestedOptions, autoSelectCandidate, currentPoints, newBadge>>
     ELSE /\ inactivityTimer' = t
          /\ UNCHANGED <<wizard, isLoading, mode, suggestedOptions, autoSelectCandidate,
                         currentPoints, newBadge, tempInput, pending>>
  /\ UNCHANGED <<story, issued, rest>>
  /\ AfterRender("tick")

\* The window listener for mousemove, keydown and touchstart.
Activity ==
  /\ TimerRunning
  /\ inactivityTimer' = activityTimer(mode, inactivityTimer)
  /\ UNCHANGED <<wizard, isLoading, mode, suggestedOptions, autoSelectCandidate,
                 currentPoints, newBadge, tempInput, pending>>
  /\ UNCHANGED <<story, issued, rest>>
  /\ AfterRender("activity")

\* Enter in the text field while it is empty: handleSelection('').  Spec
\* follows the wizard whose text field holds a text when Enter is pressed;
\* AppSpec has this handler as well.
PressEnter ==
  /\ TextFieldShown
  /\ tempInput = EmptyText
  /\ handleSelection(tempInput, UndefinedUrl)
  /\ UNCHANGED <<suggestedOptions, autoSelectCandidate, currentPoints, newBadge>>
  /\ UNCHANGED <<story, issued, rest>>
  /\ AfterRender("input")

\* onChange of the text field.
TypeText ==
  /\ TextFieldShown
  /\ \E text \in TypedTexts :
       /\ text # tempInput
       /\ Len(text) <= MaxText
       /\ tempInput' = text
  /\ inactivityTimer' = 0
  /\ UNCHANGED <<wizard, isLoading, mode, suggestedOptions, autoSelectCandidate,
                 currentPoints, newBadge, pending>>
  /\ UNCHANGED <<story, issued, rest>>
  /\ AfterRender("input")

\* handleVoiceInput at a collection step: a fragment of the transcription
\* arrives while the voice button is rendered, or while the session of an
\* unmounted voice button is being closed.
VoiceFragment ==
  /\ TextFieldShown \/ VoiceClosing
  /\ \E text \in VoiceFragments :
       /\ Len(appendText(tempInput, text)) <= MaxText
       /\ tempInput' = appendText(tempInput, text)
  /\ inactivityTimer' = 0
  /\ UNCHANGED <<wizard, isLoading, mode, suggestedOptions, autoSelectCandidate,
                 currentPoints, newBadge, pending>>
  /\ UNCHANGED <<story, issued, rest>>
  /\ AfterRender("input")

\* The Done button, shown when tempInput is not empty, or Enter in the text
\* field with text in it: handleSelection(tempInput).
SubmitText ==
  /\ TextFieldShown
  /\ tempInput # EmptyText
  /\ handleSelection(tempInput, UndefinedUrl)
  /\ UNCHANGED <<suggestedOptions, autoSelectCandidate, currentPoints, newBadge>>
  /\ UNCHANGED <<story, issued, rest>>
  /\ AfterRender("input")

\* A click on a suggested option.
ClickOption ==
  /\ step \in activeSteps /\ ~isLoading /\ ~hasValue /\ mode = "options"
  /\ \E i \in 1..Len(suggestedOptions) :
       /\ suggestedOptions[i] # UndefinedCard
       /\ handleSelection(suggestedOptions[i].label, OrUndefined(suggestedOptions[i].imageUrl))
  /\ UNCHANGED <<suggestedOptions, autoSelectCandidate, currentPoints, newBadge>>
  /\ UNCHANGED <<story, issued, rest>>
  /\ AfterRender("input")

\* The Yes button of the confirmation card.
ConfirmYes ==
  /\ step \in activeSteps /\ ~isLoading /\ ~hasValue /\ mode = "confirmation"
  /\ autoSelectCandidate # NullCard
  /\ handleSelection(autoSelectCandidate.label, OrUndefined(autoSelectCandidate.imageUrl))
  /\ UNCHANGED <<suggestedOptions, autoSelectCandidate, currentPoints, newBadge>>
  /\ UNCHANGED <<story, issued, rest>>
  /\ AfterRender("input")

\* The No button of the confirmation card.
ConfirmNo ==
  /\ step \in activeSteps /\ ~isLoading /\ ~hasValue /\ mode = "confirmation"
  /\ autoSelectCandidate # NullCard
  /\ mode' = "options"
  /\ UNCHANGED <<wizard, isLoading, inactivityTimer, suggestedOptions, autoSelectCandidate,
                 currentPoints, newBadge, tempInput, pending>>
  /\ UNCHANGED <<story, issued, rest>>
  /\ AfterRender("user")

\* The Change button: the value of the current step is set to null.
ChangeValue ==
  /\ step \in activeSteps /\ hasValue
  /\ character' = IF step = CHARACTER THEN NullValue ELSE character
  /\ place' = IF step = PLACE THEN NullValue ELSE place
  /\ time' = IF step = TIME THEN NullText ELSE time
  /\ UNCHANGED <<step, ageGroup, ui, pending>>
  /\ UNCHANGED <<story, issued, rest>>
  /\ AfterRender("user")

\* The Next button.  The effect on [state.step] clears tempInput.
confirmStep ==
  /\ step \in activeSteps /\ hasValue
  /\ currentPoints' = currentPoints + 10
  /\ newBadge' = checkBadges(step)
  /\ step' = step + 1
  /\ mode' = "input"
  /\ suggestedOptions' = << >>
  /\ autoSelectCandidate' = NullCard
  /\ tempInput' = EmptyText
  /\ issued' = IF step \in {CHARACTER, PLACE}
               THEN issued (+) SetToBag({checkBadges(step)})
               ELSE issued
  /\ UNCHANGED <<ageGroup, character, place, time, isLoading, inactivityTimer, pending, story,
                 rest>>
  /\ AfterRender("user")

\* BadgeNotification's button: onClose
CloseBadge ==
  /\ newBadge # "null"
  /\ newBadge' = "null"
  /\ UNCHANGED <<wizard, isLoading, inactivityTimer, mode, suggestedOptions,
                 autoSelectCandidate, currentPoints, tempInput, pending>>
  /\ UNCHANGED <<story, issued, rest>>
  /\ AfterRender("user")

\* handleShowOptions after "await generateSuggestions": the list replaces
\* suggestedOptions and one image is requested for each text.
SuggestionsResponse ==
  \E r \in BagToSet(pending), texts \in SuggestionLists :
    /\ r.type = "suggestions"
    /\ Room(Len(texts) - 1)
    /\ suggestedOptions' = [i \in 1..Len(texts) |-> OptionCard(texts[i], NullUrl, TRUE)]
    /\ pending' = Settle(r) (+)
                  SetToBag({Request("optionImage", 0, i - 1, EmptyText) : i \in 1..Len(texts)})
    /\ UNCHANGED <<wizard, isLoading, inactivityTimer, mode, autoSelectCandidate,
                   currentPoints, newBadge, tempInput>>
    /\ UNCHANGED <<story, issued, rest>>
    /\ AfterRender("response")

\* The continuation of an option's "await generateImage".  generateImage
\* catches every failure and returns the placeholder, so the catch branch of
\* handleShowOptions is never taken.
OptionImageResponse ==
  \E r \in BagToSet(pending), url \in Images :
    /\ r.type = "optionImage"
    /\ suggestedOptions' = setOptionImage(suggestedOptions, r.index, url)
    /\ pending' = Settle(r)
    /\ UNCHANGED <<wizard, isLoading, inactivityTimer, mode, autoSelectCandidate,
                   currentPoints, newBadge, tempInput>>
    /\ UNCHANGED <<story, issued, rest>>
    /\ AfterRender("response")

\* The continuation of handleSelection's "await generateImage": the value is
\* stored in the field chosen before the await, then the finally block runs.
SelectionResponse ==
  \E r \in BagToSet(pending), img \in Images :
    /\ r.type = "selection"
    /\ character' = IF r.field = CHARACTER THEN Value(r.text, img) ELSE character
    /\ place' = IF r.field = PLACE THEN Value(r.text, img) ELSE place
    /\ isLoading' = FALSE
    /\ tempInput' = EmptyText
    /\ pending' = Settle(r)
    /\ UNCHANGED <<step, ageGroup, time, inactivityTimer, mode, suggestedOptions,
                   autoSelectCandidate, currentPoints, newBadge>>
    /\ UNCHANGED <<story, issued, rest>>
    /\ AfterRender("response")

\* ------------------------------------------------------------------------
\* Story generation (plot step)
\* ------------------------------------------------------------------------

\* What the call of the text model inside generateStorySegments can do:
\* throw (the request fails, or the response is not JSON), or return JSON
\* that is an array of items or something else.  A missing or empty field of
\* an item is the empty text.
Item(storyText, imageDescription) ==
  [storyText |-> storyText, imageDescription |-> imageDescription]

Throws == [kind |-> "throws", items |-> << >>]
NotArray == [kind |-> "notArray", items |-> << >>]
Array(items) == [kind |-> "array", items |-> items]

\* { text, imagePrompt }
Segment(text, imagePrompt) == [text |-> text, imagePrompt |-> imagePrompt]

\* x || fallback, for a text
OrText(x, fallback) == IF x = EmptyText THEN fallback ELSE x

\* generateStorySegments, given what the text model does.  Every failure is
\* caught inside the function.
generateStorySegments(inputs, response) ==
  CASE response.kind = "throws" ->
         << Segment(inputs.plot, inputs.plot) >>
    [] response.kind = "notArray" ->
         << Segment(inputs.plot, inputs.character \o <<" in ">> \o inputs.place) >>
    [] OTHER ->
         [i \in 1..Len(response.items) |->
            Segment(OrText(response.items[i].storyText, <<"Story continues...">>),
                    OrText(response.items[i].imageDescription,
                           inputs.character \o <<" in ">> \o inputs.place))]

\* The responses of the text model that the wizard is run with: a failure,
\* an empty array and an array of two pages.
StoryResponses ==
  {Throws, Array(<< >>), Array(<< Item(<<"page">>, <<"owl">>), Item(<<"page">>, <<"owl">>) >>)}

\* The plot sent when state.plotInput is empty
PlotText == <<"They started an adventure.">>

\* { text, imageUrl } of a StoryPage
Page(text, imageUrl) == [text |-> text, imageUrl |-> imageUrl]

\* The first statement of generatePage:
\* if (!state.character || !state.place || !state.time) return
returnsAtOnce(c, p, tm) ==
  c = NullValue \/ p = NullValue \/ tm \in {NullText, UndefinedText, EmptyText}

\* The generate button of renderPlotStep, disabled while isLoading:
\* generatePage up to "await generateStorySegments".  The function returns
\* at once when character, place or time is falsy.
GeneratePage ==
  /\ step = PLOT /\ ~isLoading
  /\ IF returnsAtOnce(character, place, time)
     THEN UNCHANGED <<isLoading, pending>>
     ELSE /\ Room(1)
          /\ isLoading' = TRUE
          /\ pending' = Issue(Request("segments", 0, 0, OrText(plotInput, PlotText)))
  /\ UNCHANGED <<wizard, inactivityTimer, mode, suggestedOptions, autoSelectCandidate,
                 currentPoints, newBadge, tempInput, story, issued, rest>>
  /\ AfterRender("user")

\* generatePage after "await generateStorySegments": one generateImage is
\* started for each segment and Promise.all awaits them.  The request that
\* stands for the awaited images keeps whether the text model failed
\* (field), the number of segments (index) and the text of the pages (text;
\* the pages of one response have the same text here).
SegmentsResponse ==
  \E r \in BagToSet(pending), response \in StoryResponses :
    /\ r.type = "segments"
    /\ LET segments == generateStorySegments(
                         [character |-> character.description,
                          place |-> place.description, plot |-> r.text], response)
       IN  pending' = Settle(r) (+)
             SetToBag({Request("pages", IF response = Throws THEN 1 ELSE 0, Len(segments),
                               IF Len(segments) = 0 THEN EmptyText ELSE segments[1].text)})
    /\ UNCHANGED <<wizard, ui, story, issued, rest>>
    /\ AfterRender("response")

\* generatePage after "await Promise.all": generateImage and
\* generateStorySegments catch every failure, so the catch branch with the
\* alert is not reached; the points and the badge are awarded, the pages are
\* stored, the step becomes preview and the finally block clears isLoading.
\* The effect on [state.step] clears tempInput.
PagesResponse ==
  \E r \in BagToSet(pending), img \in Images :
    /\ r.type = "pages"
    /\ currentPoints' = currentPoints + 50
    /\ newBadge' = "master_story"
    /\ issued' = issued (+) SetToBag({"master_story"})
    /\ generatedPages' = [i \in 1..r.index |-> Page(r.text, img)]
    /\ step' = PREVIEW
    /\ isLoading' = FALSE
    /\ tempInput' = IF step' # step THEN EmptyText ELSE tempInput
    /\ pending' = Settle(r)
    /\ UNCHANGED <<ageGroup, character, place, time, inactivityTimer, mode, suggestedOptions,
                   autoSelectCandidate, alerts, rest>>
    /\ AfterRender("response")

\* The interval callback as the wizard as a whole follows it
WizardTick == (step = TIME => inactivityTimer < MaxTimeTimer) /\ Tick

Next ==
  \/ SelectAge
  \/ WizardTick
  \/ Activity
  \/ TypeText
  \/ VoiceFragment
  \/ SubmitText
  \/ ClickOption
  \/ ConfirmYes
  \/ ConfirmNo
  \/ ChangeValue
  \/ confirmStep
  \/ CloseBadge
  \/ SuggestionsResponse
  \/ OptionImageResponse
  \/ SelectionResponse
  \/ GeneratePage
  \/ SegmentsResponse
  \/ PagesResponse

Spec == Init /\ [][Next]_vars

\* ------------------------------------------------------------------------
\* The generation service (geminiService)
\*
\* Each function of the service awaits one request to a model and turns the
\* outcome into its return value.  The functions are applied to prompts and
\* to model outcomes drawn from bounded sets; every call is recorded in
\* lastCall, and the call before it in previousCall.
\* ------------------------------------------------------------------------

\* Prompts are texts of MaxPrompt characters.
MaxPrompt == 4
PromptChars == {"a", " "}
Prompts == [1..MaxPrompt -> PromptChars]

\* The characters of a text as one string.
RECURSIVE Join(_)
Join(chars) == IF chars = << >> THEN "" ELSE chars[1] \o Join(Tail(chars))

\* encodeURIComponent: a letter stands for itself, a space becomes %20.
RECURSIVE encodeURIComponent(_)
encodeURIComponent(chars) ==
  IF chars = << >> THEN << >>
  ELSE (IF chars[1] = " " THEN <<"%", "2", "0">> ELSE <<chars[1]>>)
         \o encodeURIComponent(Tail(chars))

\* .slice(0, end)
slice(chars, end) == SubSeq(chars, 1, IF end < Len(chars) THEN end ELSE Len(chars))

SeedLength == 10

\* `https://picsum.photos/seed/${encodeURIComponent(prompt).slice(0, 10)}/512/512`
Placeholder(prompt) ==
  "https://picsum.photos/seed/" \o Join(slice(encodeURIComponent(prompt), SeedLength))
    \o "/512/512"

\* `data:image/png;base64,${part.inlineData.data}`
DataUri(data) == "data:image/png;base64," \o data

\* A part of the image model's response: inlineData may be absent, and its
\* data may be the empty string.
Part(inlineData, data) == [inlineData |-> inlineData, data |-> data]
TextPart == Part(FALSE, "")
EmptyDataPart == Part(TRUE, "")
DataPart(data) == Part(TRUE, data)

\* The outcome of the request to the image model: it throws, or the response
\* has no candidate with parts, or it has parts.
ImageThrows == [kind |-> "throws", parts |-> << >>]
NoParts == [kind |-> "noParts", parts |-> << >>]
Parts(parts) == [kind |-> "parts", parts |-> parts]

ImageData == {"QUJD", "REVG"}

ImageResponses ==
  { ImageThrows, NoParts, Parts(<<TextPart, EmptyDataPart>>),
    Parts(<<TextPart, DataPart("QUJD")>>),
    Parts(<<EmptyDataPart, DataPart("REVG")>>),
    Parts(<<DataPart("QUJD"), DataPart("REVG")>>) }

\* Faulty variant of generateImage: a part with inlineData is taken as the
\* image without looking at its data.
generateImageAnyInlineData(prompt, response) ==
  LET found == {i \in 1..Len(response.parts) : response.parts[i].inlineData}
  IN  IF response.kind = "parts" /\ found # {}
      THEN DataUri(response.parts[CHOOSE i \in found : \A j \in found : i <= j].data)
      ELSE Placeholder(prompt)

\* generateImage: the first part that has inlineData with non-empty data is
\* returned as a data URI; a request that throws and a response without such
\* a part both end in the catch block, which returns the placeholder.
generateImage(prompt, response) ==
  LET found == {i \in 1..Len(response.parts) :
                  response.parts[i].inlineData /\ response.parts[i].data # ""}
  IN  IF response.kind = "parts" /\ found # {}
      THEN DataUri(response.parts[CHOOSE i \in found : \A j \in found : i <= j].data)
      ELSE Placeholder(prompt)

\* The outcome of a request to the text model: it throws, or response.text is
\* undefined, or response.text is a text.
TextThrows == [kind |-> "throws", text |-> << >>]
NoText == [kind |-> "undefined", text |-> << >>]
Text(text) == [kind |-> "text", text |-> text]

ProseResponses == {TextThrows, NoText, Text(EmptyText), Text(<<"Once upon a time">>)}

\* generateText: response.text || "", and the fixed sentence in the catch.
generateText(response) ==
  IF response.kind = "throws" THEN <<"Something magical happened...">>
  ELSE IF response.kind = "undefined" THEN EmptyText
  ELSE response.text

\* JSON text is a sequence of tokens: brackets, commas and string literals.
JsonPunctuation == {"[", "]", ","}

\* The tokens between the brackets of a JSON array text.
Elements(text) == SubSeq(text, 2, Len(text) - 1)

\* Whether JSON.parse accepts the text as an array of strings; it throws on
\* any other text of the model.
IsStringArray(text) ==
  /\ Len(text) >= 2
  /\ text[1] = "["
  /\ text[Len(text)] = "]"
  /\ Len(Elements(text)) = 0 \/ Len(Elements(text)) % 2 = 1
  /\ \A i \in 1..Len(Elements(text)) :
       IF i % 2 = 1 THEN Elements(text)[i] \notin JsonPunctuation
       ELSE Elements(text)[i] = ","

\* JSON.parse(text) for a text that IsStringArray accepts.
JSONparse(text) ==
  [i \in 1..((Len(Elements(text)) + 1) \div 2) |-> <<Elements(text)[2 * i - 1]>>]

SuggestionResponses ==
  { TextThrows, NoText, Text(EmptyText), Text(<<"[", "]">>),
    Text(<<"[", "fox", ",", "owl", "]">>), Text(<<"[", "fox", ",", "]">>),
    Text(<<"Here", "are", "options">>) }

\* Faulty variant of generateSuggestions: a failure is answered like an
\* empty response.
generateSuggestionsNumbered(response) ==
  IF response.kind = "text" /\ response.text # EmptyText /\ IsStringArray(response.text)
  THEN JSONparse(response.text)
  ELSE << <<"Option 1">>, <<"Option 2">>, <<"Option 3">> >>

\* generateSuggestions: the numbered options when response.text is falsy,
\* the parsed array otherwise; the catch block answers a request that throws
\* and a text that JSON.parse rejects.
generateSuggestions(response) ==
  IF response.kind = "throws" THEN << <<"A funny cat">>, <<"A big bear">>, <<"A flying fish">> >>
  ELSE IF response.kind = "undefined" \/ response.text = EmptyText
  THEN << <<"Option 1">>, <<"Option 2">>, <<"Option 3">> >>
  ELSE IF IsStringArray(response.text) THEN JSONparse(response.text)
  ELSE << <<"A funny cat">>, <<"A big bear">>, <<"A flying fish">> >>

\* The inputs of generateStorySegments that reach its result.
StoryInputs ==
  [character : {<<"fox">>}, place : {<<"forest">>}, plot : {PlotText, <<"owl">>}]

SegmentResponses ==
  StoryResponses \cup {NotArray, Array(<< Item(EmptyText, EmptyText) >>)}

\* const initialOptions = texts.map(t => ({ label: t, imageUrl: null, loading: true }))
initialOptions(texts) == [i \in 1..Len(texts) |-> OptionCard(texts[i], NullUrl, TRUE)]

\* The prompt handleShowOptions builds for the image of an option.
OptionPrompt(s, text) ==
  IF s = PLACE
  THEN <<"A", " ", "c", "a", "r", "t", "o", "o", "n", " ", "b", "a", "c", "k", "g", "r", "o",
         "u", "n", "d", " ", "o", "f", " ">> \o text
  ELSE <<"A", " ", "c", "u", "t", "e", " ">> \o text
         \o <<" ", "c", "h", "a", "r", "a", "c", "t", "e", "r">>

\* The body of texts.forEach in handleShowOptions for the option at position
\* index of the list: generateImage is awaited and its result is stored in
\* the option.  The catch block of the body needs generateImage to throw.
optionImage(s, options, index, response) ==
  setOptionImage(options, index, generateImage(OptionPrompt(s, options[index + 1].label), response))

\* Lists of options as handleShowOptions stores them, written in characters.
OptionTexts == { << <<"o", "w", "l">> >>, << <<"f", "o", "x">>, <<"o", "w", "l">> >> }

\* What a call of the service leaves alone: the wizard and the components
\* around it.
app == <<wizard, ui, closure, pending, history, story, issued, plotInput, away, shell, voice,
        reader, editor>>

CallGenerateImage ==
  \E prompt \in Prompts, response \in ImageResponses :
    /\ lastCall' = Call("generateImage", prompt, response, generateImage(prompt, response))
    /\ previousCall' = lastCall
    /\ UNCHANGED app

CallGenerateText ==
  \E response \in ProseResponses :
    /\ lastCall' = Call("generateText", << >>, response, generateText(response))
    /\ previousCall' = lastCall
    /\ UNCHANGED app

CallGenerateSuggestions ==
  \E response \in SuggestionResponses :
    /\ lastCall' = Call("generateSuggestions", << >>, response, generateSuggestions(response))
    /\ previousCall' = lastCall
    /\ UNCHANGED app

CallGenerateStorySegments ==
  \E inputs \in StoryInputs, response \in SegmentResponses :
    /\ lastCall' = Call("generateStorySegments", inputs, response,
                        generateStorySegments(inputs, response))
    /\ previousCall' = lastCall
    /\ UNCHANGED app

OptionImageSettles ==
  \E s \in {CHARACTER, PLACE}, texts \in OptionTexts, response \in ImageResponses :
    \E index \in 0..(Len(texts) - 1) :
      /\ lastCall' = Call("optionImage",
                       [step |-> s, options |-> initialOptions(texts), index |-> index],
                       response, optionImage(s, initialOptions(texts), index, response))
      /\ previousCall' = lastCall
      /\ UNCHANGED app

ServiceNext ==
  \/ CallGenerateImage
  \/ CallGenerateText
  \/ CallGenerateSuggestions
  \/ CallGenerateStorySegments
  \/ OptionImageSettles

ServiceSpec == Init /\ [][ServiceNext]_vars

\* ------------------------------------------------------------------------
\* Properties
\* ------------------------------------------------------------------------

\* A step of the interval callback.  Every other step that changes the
\* counter is an input of the user, which sets sinceActivity to 0.
IntervalFired == inactivityTimer' # inactivityTimer /\ sinceActivity' # 0

\* The precondition of the first escalation: a collection step, nothing
\* loading, input mode, empty text field.
InputIdle == TimerRunning /\ mode = "input" /\ tempInput = EmptyText

\* C1: from every reachable state with a collection step, nothing loading,
\* input mode and an empty text field, 30 idle ticks lead to options mode.
\* A tick adds one to the counter and escalates exactly when the new value
\* equals OptionsAt, so 30 idle ticks reach options mode if and only if they
\* start from a counter below OptionsAt: the claim is that no such state has
\* a counter of OptionsAt or more.
C1_IdleInputEscalates == InputIdle => inactivityTimer < OptionsAt

\* C2: when the counter of an idle run takes options mode to confirmation
\* mode, the candidate is the first entry of the suggestion list that has
\* arrived, and the fixed fallback only when none has.
C2_CandidateIsFirstSuggestion ==
  [][(pristine /\ mode = "options" /\ mode' = "confirmation")
       => autoSelectCandidate' = IF Len(suggestedOptions) > 0 THEN suggestedOptions[1]
                                 ELSE MagicFriend]_vars

\* C3: when the counter reaches 70 in confirmation mode, the displayed
\* candidate is committed as a selection of the user would be: the mode
\* returns to input, the step stays, and the field of the step holds the
\* candidate's label with the candidate's image, at once when the candidate
\* has an image or the step is the time step, otherwise when the image
\* requested for that label arrives.
C3_AutoSelectCommits ==
  [][/\ (mode = "confirmation" /\ inactivityTimer = AutoSelectAt - 1 /\ IntervalFired)
          => LET image == OrUndefined(autoSelectCandidate.imageUrl) IN
             /\ autoSelectCandidate # NullCard
             /\ mode' = "input"
             /\ step' = step
             /\ IF step = TIME
                THEN time' = autoSelectCandidate.label /\ ~isLoading'
                ELSE IF image # UndefinedUrl
                THEN /\ FieldOf(step)' = Value(autoSelectCandidate.label, image)
                     /\ ~isLoading'
                ELSE /\ pending' = Issue(Request("selection", step, 0, autoSelectCandidate.label))
                     /\ isLoading'
     /\ \A r \in BagToSet(pending) :
          (r.type = "selection" /\ pending' = Settle(r))
             => \E img \in Images : FieldOf(r.field)' = Value(r.text, img)]_vars

\* A character was auto-selected on a run without any input of the user.
C3_Witness ==
  /\ pristine /\ step = CHARACTER /\ mode = "input"
  /\ character.description = MagicFriend.label
  /\ character.imageUrl \in Images

\* C4: at the character step, on a run without any input since the step was
\* entered, with the suggestion list and all its images arrived, the
\* character that gets committed is the first suggested option with its
\* image, and the mode is input.
C4_IdleCharacterIsFirstSuggestion ==
  [][(/\ pristine /\ pristine' /\ step = CHARACTER
      /\ ~hasValue /\ hasValue'
      /\ Len(suggestedOptions) > 0
      /\ \A i \in 1..Len(suggestedOptions) : ~suggestedOptions[i].loading)
       => /\ character' = Value(suggestedOptions[1].label, suggestedOptions[1].imageUrl)
          /\ mode' = "input"]_vars

\* C5: a collection step is left only by the confirm action: every change
\* of the step has the effects of confirmStep (a value is present, the next
\* step, input mode, the list and the candidate cleared, ten points), so
\* ticks, escalations, selections and auto-select leave the step alone.
C5_StepChangesOnlyByConfirm ==
  [][(step \in activeSteps /\ step' # step)
       => /\ hasValue
          /\ step' = step + 1
          /\ mode' = "input"
          /\ suggestedOptions' = << >>
          /\ autoSelectCandidate' = NullCard
          /\ currentPoints' = currentPoints + 10
          /\ UNCHANGED <<character, place, time, pending>>]_vars

\* An auto-selected character stayed at its step until it was confirmed.
C5_Witness ==
  /\ step = PLACE /\ currentPoints = 10
  /\ character.description = MagicFriend.label
  /\ inactivityTimer >= AutoSelectAt

\* C6: every transition that enters input mode at a collection step (from
\* another mode, or by moving to the next step) leaves the counter at 0.
C6_InputModeStartsAtZero ==
  [][((mode # "input" \/ step' # step) /\ mode' = "input" /\ step' \in activeSteps)
       => inactivityTimer' = 0]_vars

\* C7: while the current step has a value, the interval changes neither the
\* mode nor any stored value.
C7_TimerStoppedAfterSelection ==
  [][(step \in activeSteps /\ hasValue /\ IntervalFired)
       => (mode' = mode /\ wizard' = wizard)]_vars

\* C8: when a selection completes, at once or when its image arrives, the
\* chosen value is in the field of the step of the selection, the mode is
\* input, nothing is loading and the text field is empty.
C8_CompletedSelection ==
  [][/\ (step \in activeSteps /\ pending' = pending /\ hasValue'
           /\ FieldOf(step)' # FieldOf(step))
          => (mode' = "input" /\ ~isLoading' /\ tempInput' = EmptyText)
     /\ \A r \in BagToSet(pending) :
          (r.type = "selection" /\ pending' = Settle(r))
             => /\ FieldOf(r.field)'.description = r.text
                /\ mode' = "input"
                /\ ~isLoading'
                /\ tempInput' = EmptyText]_vars

C10_ActivityRestartsCount ==
  [][/\ sinceActivity' = 0 => inactivityTimer' = 0
     /\ (mode = "input" /\ mode' = "options")
          => (sinceActivity' = OptionsAt /\ inactivityTimer' = OptionsAt)]_vars

\* Options mode was reached 30 ticks after an input of the user.
C10_Witness ==
  /\ ~pristine /\ step = CHARACTER /\ ~hasValue
  /\ mode = "options" /\ inactivityTimer = OptionsAt /\ sinceActivity = OptionsAt

\* C11: the interval changes the counter (and with it the mode) only at a
\* collection step while nothing is loading; at every other step, and while
\* loading, the counter moves only through an input of the user.
C11_TimerOnlyWhileActive ==
  [][(inactivityTimer' # inactivityTimer /\ sinceActivity' # 0)
       => (step \in {CHARACTER, PLACE, TIME} /\ ~isLoading)]_vars

\* The counter stands still above 0 while the story is being generated.
C11_Witness == step = PLOT /\ isLoading /\ inactivityTimer = 1

\* C12 as stated: the first value stored for the character (the place)
\* issues the Character Creator (World Builder) badge.
C12_FirstValueIssuesBadge ==
  [][/\ (step = CHARACTER /\ ~("char_creator" \in BagToSet(issued))
           /\ character = NullValue /\ character' # NullValue)
          => CopiesIn("char_creator", issued') = 1
     /\ (step = PLACE /\ ~("world_builder" \in BagToSet(issued))
           /\ place = NullValue /\ place' # NullValue)
          => CopiesIn("world_builder", issued') = 1]_vars

\* C12 amended: the badge of the character (place) step is issued when that
\* step is confirmed, not when its value is stored: it has been issued
\* exactly once when the wizard is past the step and not at all before,
\* however often the value was cleared and selected again.
C12_BadgeOncePerConfirmedStep ==
  /\ CopiesIn("char_creator", issued) = IF step > CHARACTER THEN 1 ELSE 0
  /\ CopiesIn("world_builder", issued) = IF step > PLACE THEN 1 ELSE 0

\* Both badges have been issued once, their notifications are closed and
\* the time step holds a value.
C12_Witness ==
  /\ step = TIME /\ newBadge = "null"
  /\ CopiesIn("char_creator", issued) = 1 /\ CopiesIn("world_builder", issued) = 1
  /\ time # NullText

\* C13: the Master Storyteller badge (with its 50 points) is issued once
\* when the story is generated and never a second time.
C13_StoryAwardedOnce ==
  CopiesIn("master_story", issued) = IF step = PREVIEW THEN 1 ELSE 0

\* C14: the points change only by 10 at the confirmation of a collection
\* step and by 50 when a story generation succeeds, so at preview they are
\* the starting points (0) plus 80.
C14_PointsAtPreview ==
  [][/\ currentPoints' # currentPoints
          => \/ (step \in activeSteps /\ step' = step + 1
                   /\ currentPoints' = currentPoints + 10)
             \/ (step' = PREVIEW /\ ~isLoading' /\ currentPoints' = currentPoints + 50)
     /\ step' = PREVIEW => currentPoints' = 80]_vars

\* C15: a badge is handed to the notification only by confirming the
\* character step, confirming the place step and a successful story
\* generation; every other step leaves the pending badge as it is, except
\* that closing the notification clears it.
C15_BadgeSources ==
  [][(newBadge' # newBadge \/ issued' # issued)
       => \/ /\ step = CHARACTER /\ step' = PLACE
             /\ newBadge' = "char_creator"
             /\ issued' = issued (+) SetToBag({"char_creator"})
          \/ /\ step = PLACE /\ step' = TIME
             /\ newBadge' = "world_builder"
             /\ issued' = issued (+) SetToBag({"world_builder"})
          \/ /\ step' = PREVIEW /\ currentPoints' = currentPoints + 50
             /\ newBadge' = "master_story"
             /\ issued' = issued (+) SetToBag({"master_story"})
          \/ /\ newBadge' = "null" /\ issued' = issued
             /\ UNCHANGED <<wizard, mode, isLoading, pending, currentPoints>>]_vars

\* The time step was confirmed and the badge of the place step is still
\* pending.
C15_Witness == step = PLOT /\ newBadge = "world_builder" /\ currentPoints = 30

\* C17: no step cancels a request: a request leaves the bag only when its
\* response is applied, one at a time, and confirming a step leaves the bag
\* as it is.  A suggestion list or an option image that arrives is applied
\* to suggestedOptions whatever the step is by then.
C17_RequestsNeverCancelled ==
  [][/\ \A r \in BagToSet(pending) : CopiesIn(r, pending') >= CopiesIn(r, pending) - 1
     /\ (step \in activeSteps /\ step' # step) => pending' = pending
     /\ \A r \in BagToSet(pending) :
          CopiesIn(r, pending') < CopiesIn(r, pending)
             => /\ r.type = "suggestions"
                     => (Len(suggestedOptions') > 0
                           /\ \A i \in 1..Len(suggestedOptions') : suggestedOptions'[i].loading)
                /\ r.type = "optionImage"
                     => /\ Len(suggestedOptions') > r.index
                        /\ suggestedOptions'[r.index + 1].imageUrl \in Images
                        /\ ~suggestedOptions'[r.index + 1].loading]_vars

\* The place step holds options although no suggestions were requested at
\* it: no input and no escalation has happened since it was entered.
C17_Witness ==
  /\ step = PLACE /\ pristine /\ mode = "input" /\ ~isLoading
  /\ place = NullValue /\ inactivityTimer < OptionsAt
  /\ Len(suggestedOptions) > 0
  /\ \A r \in BagToSet(pending) : r.type # "selection"

\* C18: when the text model fails during story generation, the generation
\* ends with an alert, at the plot step, with no pages, no points, no badge
\* and loading false.
C18_FailedGenerationAlerts ==
  [][\A r \in BagToSet(pending) :
       (r.type = "pages" /\ r.field = 1 /\ CopiesIn(r, pending') < CopiesIn(r, pending))
          => /\ alerts' = alerts + 1
             /\ step' = PLOT
             /\ generatedPages' = << >>
             /\ currentPoints' = currentPoints
             /\ issued' = issued
             /\ ~isLoading']_vars

\* Whether the response of the image model carries image data.
HasImageData(response) ==
  /\ response.kind = "parts"
  /\ \E i \in 1..Len(response.parts) :
       response.parts[i].inlineData /\ response.parts[i].data # ""

\* C16: when the image generation for a suggested option fails, the option
\* ends non-loading with imageUrl null and its label kept, and the other
\* options are as they were.
C16_FailedOptionHasNoImage ==
  (lastCall.op = "optionImage" /\ ~HasImageData(lastCall.response)) =>
    LET before == lastCall.arg.options
        after == lastCall.result
        i == lastCall.arg.index + 1
    IN  /\ Len(after) = Len(before)
        /\ after[i] = OptionCard(before[i].label, NullUrl, FALSE)
        /\ \A j \in (1..Len(before)) \ {i} : after[j] = before[j]

\* C19: when the request to the model fails, generateSuggestions returns its
\* three fixed options, generateText its fixed sentence, and
\* generateStorySegments one segment whose text is the plot input.
C19_TextFallbacks ==
  /\ (lastCall.op = "generateSuggestions" /\ lastCall.response.kind = "throws") =>
       lastCall.result = << <<"A funny cat">>, <<"A big bear">>, <<"A flying fish">> >>
  /\ (lastCall.op = "generateText" /\ lastCall.response.kind = "throws") =>
       lastCall.result = <<"Something magical happened...">>
  /\ (lastCall.op = "generateStorySegments" /\ lastCall.response.kind = "throws") =>
       (Len(lastCall.result) = 1 /\ lastCall.result[1].text = lastCall.arg.plot)

\* generateSuggestions failed, and then generateStorySegments failed for a
\* plot the user wrote.
C19_Witness ==
  /\ previousCall.op = "generateSuggestions"
  /\ previousCall.response = TextThrows
  /\ lastCall.op = "generateStorySegments"
  /\ lastCall.response = Throws
  /\ lastCall.arg.plot = <<"owl">>
  /\ lastCall.result[1].text = <<"owl">>

\* C20: generateImage returns a data URI when the response carries image
\* data and a placeholder URL in every other case, and two calls without
\* image data for the same prompt return the same URL.
C20_ImageOrPlaceholder ==
  /\ lastCall.op = "generateImage" =>
       IF HasImageData(lastCall.response)
       THEN lastCall.result \in {DataUri(data) : data \in ImageData}
       ELSE lastCall.result \in {Placeholder(prompt) : prompt \in Prompts}
  /\ ( /\ lastCall.op = "generateImage"
       /\ previousCall.op = "generateImage"
       /\ ~HasImageData(lastCall.response)
       /\ ~HasImageData(previousCall.response)
       /\ lastCall.arg = previousCall.arg ) =>
       lastCall.result = previousCall.result

\* Two calls for a prompt of four spaces failed in different ways, and both
\* returned the placeholder of the first ten characters of the encoded prompt.
C20_Witness ==
  /\ lastCall.op = "generateImage"
  /\ previousCall.op = "generateImage"
  /\ lastCall.response = ImageThrows
  /\ previousCall.response = Parts(<<TextPart, EmptyDataPart>>)
  /\ lastCall.arg = previousCall.arg
  /\ lastCall.result = "https://picsum.photos/seed/%20%20%20%/512/512"
  /\ previousCall.result = lastCall.result

\* C25: the step is one of the six values of WizardStep and changes only
\* upwards by one: from age selection by choosing an age group, from a
\* collection step by the Next button (which also awards 10 points), and
\* from plot to preview when the generated pages are stored.
C25_StepOnlyAdvances ==
  /\ [](step \in AGE_SELECTION..PREVIEW)
  /\ [][step' # step =>
         \/ step = AGE_SELECTION /\ step' = CHARACTER /\ ageGroup' # "null"
         \/ step \in activeSteps /\ step' = step + 1 /\ currentPoints' = currentPoints + 10
         \/ step = PLOT /\ step' = PREVIEW /\ currentPoints' = currentPoints + 50]_vars

\* The wizard went through every step and shows the preview.
C25_Witness == step = PREVIEW /\ Len(generatedPages) > 0 /\ currentPoints = 80

\* C26: in confirmation mode the counter is between 60 and 70 and a
\* candidate is set.
C26_ConfirmationWindow ==
  mode = "confirmation" =>
    /\ inactivityTimer >= ConfirmationAt
    /\ inactivityTimer <= AutoSelectAt
    /\ autoSelectCandidate # NullCard

\* C27: past age selection the age group is set, past the character step
\* the character, past the place step the place, past the time step the time.
C27_ValuesBeforeAdvance ==
  /\ step > AGE_SELECTION => ageGroup # "null"
  /\ step > CHARACTER => character # NullValue
  /\ step > PLACE => place # NullValue
  /\ step > TIME => time # NullText

\* The place step was reached, the place was chosen and cleared again, and
\* a selection for it is in flight.
C27_Witness ==
  /\ step = PLACE /\ place = NullValue /\ character # NullValue
  /\ \E r \in BagToSet(pending) : r.type = "selection" /\ r.field = PLACE
  /\ currentPoints = 10

\* C28: while the text field holds text, a step of the interval stores no
\* value and starts no selection.
C28_NoAutoCommitOverText ==
  [][(step \in activeSteps /\ tempInput # EmptyText /\ IntervalFired)
       => /\ wizard' = wizard
          /\ \A r \in BagToSet(pending') : r.type = "selection" =>
                CopiesIn(r, pending') = CopiesIn(r, pending)]_vars

\* C30: every entry of the suggestion list has a label, and the labels are
\* those of a list returned by generateSuggestions, in its order.
C30_SuggestionLabels ==
  \/ suggestedOptions = << >>
  \/ \E texts \in SuggestionLists :
       /\ Len(suggestedOptions) = Len(texts)
       /\ \A i \in 1..Len(texts) : suggestedOptions[i].label = texts[i]

\* ---------------------------------------------------------------------
\* The story reader (StoryReader) and the PDF export (pdfService)
\* ---------------------------------------------------------------------

MaxPages == 2
MaxDownloads == 3
MaxPlays == 2

\* x || y, for image references
OrUrl(x, y) == IF Falsy(x) THEN y ELSE x

\* JavaScript falsiness of a text (string | null | undefined)
FalsyText(t) == t \in {NullText, UndefinedText, EmptyText}

\* newStory of handleWizardFinish, for the WizardState with the given
\* character, place, time and generatedPages.  The id is Date.now(); two
\* stories are not created in the same millisecond, and n, the number of
\* the story, stands for it.  The name of the author, the age group, the
\* styling and the language are left out.
newStory(n, author, c, p, tm, pages) ==
  [id |-> n,
   authorId |-> author,
   title |-> c.description \o <<"'s Adventure">>,
   coverImage |-> OrUrl(IF Len(pages) = 0 THEN UndefinedUrl ELSE pages[1].imageUrl,
                        OrUrl(c.imageUrl, EmptyUrl)),
   character |-> c,
   place |-> p,
   time |-> IF FalsyText(tm) THEN <<"Once upon a time">> ELSE tm,
   pages |-> pages]

\* The texts of the pages of the stories below
PageTexts == {EmptyText, <<"page">>, <<"owl">>}

\* The stories of the first user that the reader and the editor are opened
\* with: the k-th story, of n pages, each with one of the texts or with
\* none.
StoriesOf(k, n) ==
  {newStory(k, 1, Value(<<"fox">>, "data:image"), Value(<<"forest">>, "data:image"), <<"owl">>,
            [i \in 1..n |-> Page(texts[i], "data:image")]) : texts \in [1..n -> PageTexts]}

\* The stories the reader is shown with: one to MaxPages pages.
ReaderStories == UNION {StoriesOf(1, n) : n \in 1..MaxPages}

\* generatePDF: an image that cannot be loaded is left out, and the promise
\* is rejected when jsPDF throws.
generatePDF(imagesLoad, docThrows) == IF docThrows THEN "rejected" ELSE "saved"

\* Faulty variant of handleDownloadSettled: the flag is reset after
\* "await generatePDF" instead of in a finally block.
handleDownloadNoFinally(settled, flag, shown) ==
  IF settled = "rejected"
  THEN [isDownloading |-> flag, alerts |-> shown + 1]
  ELSE [isDownloading |-> FALSE, alerts |-> shown]

\* handleDownload after "await generatePDF": the catch block and the finally
\* block.
handleDownloadSettled(settled, flag, shown) ==
  [isDownloading |-> FALSE,
   alerts |-> IF settled = "rejected" THEN shown + 1 ELSE shown]

\* What the reader leaves alone
outsideReader ==
  <<wizard, ui, closure, pending, history, story, issued, service, plotInput, away, orphaned,
    voice, user, logins, editor>>

\* No continuation of handleDownload is waiting to run: it runs before the
\* next event is handled.
ReaderIdle == view = "read" /\ exporting \in {"none", "running"}

\* The download button, disabled while isDownloading: handleDownload up to
\* "await generatePDF".
handleDownload ==
  /\ ReaderIdle /\ ~isDownloading
  /\ downloads < MaxDownloads
  /\ isDownloading' = TRUE
  /\ exporting' = "running"
  /\ downloads' = downloads + 1
  /\ exports' = exports + 1
  /\ UNCHANGED <<view, stories, currentStory, currentPage, selectedVoice, isPlaying, isLoadingAudio,
                 sourceNode, speaking, stray, plays, readerAlerts, audioContext, speechFor, playingFor, outsideReader>>

\* The promise of generatePDF settles.
ExportSettles ==
  /\ view = "read" /\ exporting = "running"
  /\ \E imagesLoad \in BOOLEAN, docThrows \in BOOLEAN :
       exporting' = generatePDF(imagesLoad, docThrows)
  /\ UNCHANGED <<view, stories, currentStory, currentPage, selectedVoice, isPlaying, isLoadingAudio,
                 isDownloading, sourceNode, speaking, stray, downloads, exports, plays,
                 readerAlerts, audioContext, speechFor, playingFor, outsideReader>>

\* handleDownload goes on after "await generatePDF".
DownloadSettled ==
  /\ view = "read" /\ exporting \in {"saved", "rejected"}
  /\ LET after == handleDownloadSettled(exporting, isDownloading, readerAlerts.pdf)
     IN  /\ isDownloading' = after.isDownloading
         /\ readerAlerts' = [readerAlerts EXCEPT !.pdf = after.alerts]
  /\ exporting' = "none"
  /\ UNCHANGED <<view, stories, currentStory, currentPage, selectedVoice, isPlaying, isLoadingAudio,
                 sourceNode, speaking, stray, downloads, exports, plays, audioContext, speechFor, playingFor, outsideReader>>

\* An export started by a reader that is gone settles: setIsDownloading
\* has no effect, the alert is shown all the same.
StrayExportSettles ==
  /\ stray.pdf > 0
  /\ exporting \in {"none", "running"}
  /\ \E imagesLoad \in BOOLEAN, docThrows \in BOOLEAN :
       LET after == handleDownloadSettled(generatePDF(imagesLoad, docThrows), FALSE,
                                          readerAlerts.pdf)
       IN  readerAlerts' = [readerAlerts EXCEPT !.pdf = after.alerts]
  /\ stray' = [stray EXCEPT !.pdf = @ - 1]
  /\ UNCHANGED <<view, stories, currentStory, currentPage, selectedVoice, isPlaying, isLoadingAudio,
                 isDownloading, sourceNode, exporting, speaking, downloads, exports, plays,
                 audioContext, speechFor, playingFor, outsideReader>>

\* stopAudio
stopAudio ==
  /\ sourceNode' = FALSE
  /\ isPlaying' = FALSE
  /\ playingFor' = NoNarration

\* The play button, disabled while isLoadingAudio: handlePlay up to
\* "await generateSpeech".  stopAudio when the page is being read.
handlePlay ==
  /\ ReaderIdle /\ ~isLoadingAudio
  /\ IF isPlaying
     THEN /\ stopAudio
          /\ UNCHANGED <<isLoadingAudio, speaking, speechFor, plays>>
     ELSE IF currentStory.pages[currentPage + 1].text = EmptyText
     THEN UNCHANGED <<sourceNode, isPlaying, playingFor, isLoadingAudio, speaking, speechFor,
                      plays>>
     ELSE /\ plays < MaxPlays
          /\ isLoadingAudio' = TRUE
          /\ speaking' = TRUE
          /\ speechFor' = [text |-> currentStory.pages[currentPage + 1].text,
                           voice |-> selectedVoice]
          /\ plays' = plays + 1
          /\ UNCHANGED <<sourceNode, isPlaying, playingFor>>
  /\ UNCHANGED <<view, stories, currentStory, currentPage, selectedVoice, isDownloading, exporting,
                 stray, downloads, exports, readerAlerts, audioContext, outsideReader>>

\* What generateSpeech and decodeAndPlay make of the answer of the speech
\* model: no audio (generateSpeech returns undefined, also when the request
\* fails), audio that is played, audio that decodeAndPlay throws on.
SpeechResults == {"undefined", "played", "throws"}

\* decodeAndPlay's source.start(): what sounds is the audio that was asked
\* for, whatever the reader shows by now.
startSource(asked, shown) == asked

\* handlePlay after "await generateSpeech", with decodeAndPlay, which
\* creates the audio context when there is none.
SpeechSettles ==
  /\ ReaderIdle /\ speaking
  /\ \E result \in SpeechResults :
       LET shown == [text |-> currentStory.pages[currentPage + 1].text, voice |-> selectedVoice]
           started == IF result = "played" THEN startSource(speechFor, shown) ELSE NoNarration
       IN  /\ sourceNode' = IF started # NoNarration THEN TRUE ELSE sourceNode
           /\ playingFor' = IF started # NoNarration THEN started ELSE playingFor
           /\ isPlaying' = CASE started # NoNarration -> TRUE
                             [] result = "throws" -> FALSE
                             [] OTHER -> isPlaying
           /\ readerAlerts' = IF result = "throws"
                              THEN [readerAlerts EXCEPT !.audio = @ + 1]
                              ELSE readerAlerts
           /\ audioContext' = IF result = "undefined" THEN audioContext ELSE "open"
  /\ isLoadingAudio' = FALSE
  /\ speaking' = FALSE
  /\ speechFor' = NoNarration
  /\ UNCHANGED <<view, stories, currentStory, currentPage, selectedVoice, isDownloading, exporting,
                 stray, downloads, exports, plays, outsideReader>>

\* The speech asked for by a reader that is gone arrives.  decodeAndPlay
\* starts a source all the same: it sounds, with no reader to stop it, in
\* the context it creates when the reader had none, and it is silent in the
\* context that the reader closed when it was unmounted.
StraySpeechSettles ==
  /\ exporting \in {"none", "running"}
  /\ \E kind \in {"speech", "muted"}, result \in SpeechResults :
       /\ stray[kind] > 0
       /\ readerAlerts' = IF result = "throws"
                          THEN [readerAlerts EXCEPT !.audio = @ + 1]
                          ELSE readerAlerts
       /\ stray' = [stray EXCEPT ![kind] = @ - 1,
                                 !.audio = IF kind = "speech" /\ result = "played"
                                           THEN @ + 1 ELSE @]
  /\ UNCHANGED <<view, stories, currentStory, currentPage, selectedVoice, isPlaying, isLoadingAudio,
                 isDownloading, sourceNode, exporting, speaking, downloads, exports, plays,
                 audioContext, speechFor, playingFor, outsideReader>>

\* The source started for a reader that is gone comes to its end.
StrayAudioEnded ==
  /\ stray.audio > 0
  /\ exporting \in {"none", "running"}
  /\ stray' = [stray EXCEPT !.audio = @ - 1]
  /\ UNCHANGED <<view, stories, currentStory, currentPage, selectedVoice, isPlaying, isLoadingAudio,
                 isDownloading, sourceNode, exporting, speaking, downloads, exports, plays,
                 readerAlerts, audioContext, speechFor, playingFor, outsideReader>>

\* source.onended
AudioEnded ==
  /\ ReaderIdle /\ sourceNode /\ isPlaying
  /\ isPlaying' = FALSE
  /\ playingFor' = NoNarration
  /\ UNCHANGED <<view, stories, currentStory, currentPage, selectedVoice, isLoadingAudio, isDownloading,
                 sourceNode, exporting, speaking, stray, downloads, exports, plays,
                 readerAlerts, audioContext, speechFor, outsideReader>>

\* Faulty variant of nextPage: no look at the number of pages.
nextPageUnchecked(page, pages) == page + 1

\* The index that handleNext sets
nextPage(page, pages) == IF page + 1 < Len(pages) THEN page + 1 ELSE page

\* The index that handlePrev sets
prevPage(page) == IF page > 0 THEN page - 1 ELSE page

\* The next button, disabled on the last page
handleNext ==
  /\ ReaderIdle /\ currentPage + 1 # Len(currentStory.pages)
  /\ stopAudio
  /\ currentPage' = nextPage(currentPage, currentStory.pages)
  /\ UNCHANGED <<view, stories, currentStory, selectedVoice, isLoadingAudio, isDownloading, exporting,
                 speaking, stray, downloads, exports, plays, readerAlerts, audioContext,
                 speechFor, outsideReader>>

\* The back button, disabled on the first page
handlePrev ==
  /\ ReaderIdle /\ currentPage # 0
  /\ stopAudio
  /\ currentPage' = prevPage(currentPage)
  /\ UNCHANGED <<view, stories, currentStory, selectedVoice, isLoadingAudio, isDownloading, exporting,
                 speaking, stray, downloads, exports, plays, readerAlerts, audioContext,
                 speechFor, outsideReader>>

\* A voice button
SelectVoice ==
  /\ ReaderIdle
  /\ \E v \in VOICES : selectedVoice' = v
  /\ stopAudio
  /\ UNCHANGED <<view, stories, currentStory, currentPage, isLoadingAudio, isDownloading, exporting,
                 speaking, stray, downloads, exports, plays, readerAlerts, audioContext,
                 speechFor, outsideReader>>

\* The exit button: App shows the library, the reader is unmounted (its
\* cleanup stops the source and closes the audio context) and its state is
\* gone; what it awaited goes on without it.
ExitReader ==
  /\ ReaderIdle
  /\ view' = "library"
  /\ stray' = [pdf |-> stray.pdf + (IF exporting = "running" THEN 1 ELSE 0),
               speech |-> stray.speech + (IF speaking /\ audioContext = "null" THEN 1 ELSE 0),
               muted |-> stray.muted + (IF speaking /\ audioContext = "open" THEN 1 ELSE 0),
               audio |-> stray.audio]
  /\ currentPage' = 0
  /\ selectedVoice' = "Kore"
  /\ isPlaying' = FALSE
  /\ isLoadingAudio' = FALSE
  /\ isDownloading' = FALSE
  /\ sourceNode' = FALSE
  /\ exporting' = "none"
  /\ speaking' = FALSE
  /\ audioContext' = "null"
  /\ speechFor' = NoNarration
  /\ playingFor' = NoNarration
  /\ UNCHANGED <<currentStory, stories, downloads, exports, plays, readerAlerts, outsideReader>>

\* handleReadStory, called by a story card of the library.  With a story
\* that has no page the first render of StoryReader throws (page.imageUrl
\* of undefined) and React removes the whole application.
handleReadStory ==
  /\ view = "library"
  /\ \E i \in 1..Len(stories) :
       /\ currentStory' = stories[i]
       /\ view' = IF Len(stories[i].pages) = 0 THEN "crashed" ELSE "read"
  /\ UNCHANGED <<stories, currentPage, selectedVoice, isPlaying, isLoadingAudio, isDownloading,
                 sourceNode, exporting, speaking, stray, downloads, exports, plays,
                 readerAlerts, audioContext, speechFor, playingFor, outsideReader>>

\* The library holds a story and the reader has been opened with it; a
\* later story, made from an empty list of segments, can be there as well.
ReaderInit ==
  /\ Constructed
  /\ user = 1 /\ logins = 1
  /\ view = "read"
  /\ \E s \in ReaderStories, e \in StoriesOf(2, 0) :
       /\ stories \in {<<s>>, <<e, s>>}
       /\ currentStory = s

ReaderNext ==
  \/ handleDownload
  \/ ExportSettles
  \/ DownloadSettled
  \/ StrayExportSettles
  \/ handlePlay
  \/ SpeechSettles
  \/ StraySpeechSettles
  \/ StrayAudioEnded
  \/ AudioEnded
  \/ handleNext
  \/ handlePrev
  \/ SelectVoice
  \/ ExitReader
  \/ handleReadStory

ReaderSpec == ReaderInit /\ [][ReaderNext]_vars

\* C24: when the export fails the reader shows an alert; whether it fails or
\* not, the downloading flag is false once handleDownload has gone on, and
\* it is true only while an export of this reader is under way; generatePDF
\* is called only by a click on the download button, once.
C24_ExportFailureAlerts ==
  /\ [](view = "read" => (isDownloading <=> exporting # "none"))
  /\ [][(view = "read" /\ exporting = "rejected" /\ exporting' = "none")
          => /\ readerAlerts'.pdf = readerAlerts.pdf + 1
             /\ ~isDownloading']_vars
  /\ [][(view = "read" /\ exporting = "saved" /\ exporting' = "none")
          => /\ readerAlerts' = readerAlerts
             /\ ~isDownloading']_vars
  /\ [][exports' # exports
          => /\ exports' = exports + 1
             /\ downloads' = downloads + 1
             /\ ~isDownloading]_vars

\* A second export was started after the first one failed and its alert was
\* shown.
C24_Witness ==
  /\ view = "read" /\ readerAlerts.pdf = 1
  /\ downloads = 2 /\ exports = 2
  /\ isDownloading /\ exporting = "running"

\* C36: the page index of the reader stays within the pages of the story;
\* handleNext leaves it alone on the last page and handlePrev on the first;
\* a step to another page is a step to a neighbour, and after it no source
\* is referred to and nothing is playing.
C36_PageIndexInRange ==
  /\ [](view = "read" =>
         /\ currentPage + 1 <= Len(currentStory.pages)
         /\ currentPage + 1 = Len(currentStory.pages)
              => nextPage(currentPage, currentStory.pages) = currentPage
         /\ currentPage = 0 => prevPage(currentPage) = currentPage)
  /\ [][(view = "read" /\ view' = "read" /\ currentPage' # currentPage)
          => /\ currentPage' = currentPage + 1 \/ currentPage' + 1 = currentPage
             /\ ~isPlaying' /\ ~sourceNode' /\ playingFor' = NoNarration]_vars

\* The reader is on the last of two pages; a narration has been played and
\* stopped, and another one has been asked for.
C36_Witness ==
  /\ view = "read"
  /\ Len(currentStory.pages) = 2 /\ currentPage = 1
  /\ audioContext = "open" /\ ~sourceNode /\ ~isPlaying
  /\ plays = 2 /\ speaking

\* C37: what sounds in the reader is the text of the page shown, in the
\* voice selected.
C37_NarrationOfShownPage ==
  (view = "read" /\ playingFor # NoNarration)
     => playingFor = [text |-> currentStory.pages[currentPage + 1].text,
                      voice |-> selectedVoice]

\* ---------------------------------------------------------------------
\* The voice button (VoiceInput) and handleVoiceInput
\* ---------------------------------------------------------------------

MaxStarts == 3
MaxSpoken == 3
MaxHeard == 1

\* The texts of inputTranscription: none, white space, a word, and a comma
\* after white space.
Transcriptions == {EmptyText, <<" ">>, <<"owl">>, <<" ", ",">>}

\* renderInputStep and renderPlotStep render a VoiceInput.
MountCondition == TextFieldShown \/ step = PLOT

\* React has rendered what the wizard's state asks for.
Synced == mounted = MountCondition

\* What the voice button leaves alone
outsideVoice == <<story, issued, service, away, shell, reader, editor>>

\* cleanup up to the audio context: the processor and the source are
\* disconnected, the tracks of the stream are stopped.
cleanupSync(r) == [r EXCEPT !.processor = FALSE, !.source = FALSE, !.stream = FALSE]

\* The end of cleanup, with the references r, the session sess, wait for
\* awaitingSession, and rec and con for the two flags as the caller leaves
\* them.  A session that is still connecting is awaited; an open one is
\* closed, and its onclose resets the flags.
closeSession(r, sess, wait, rec, con) ==
  IF ~r.session
  THEN /\ refs' = r
       /\ session' = sess
       /\ awaitingSession' = wait
       /\ isRecording' = rec
       /\ isConnecting' = con
  ELSE IF sess = "connecting"
  THEN /\ refs' = r
       /\ session' = sess
       /\ awaitingSession' = TRUE
       /\ isRecording' = rec
       /\ isConnecting' = con
  ELSE /\ refs' = [r EXCEPT !.session = FALSE]
       /\ session' = "none"
       /\ awaitingSession' = wait
       /\ isRecording' = IF sess = "open" THEN FALSE ELSE rec
       /\ isConnecting' = IF sess = "open" THEN FALSE ELSE con

\* cleanup, up to its first await.  It awaits audioContext.close() when
\* audioContextRef refers to a context.  When close() has been called on
\* that context already, its state is "closed" and the context is skipped,
\* or close() is called again and throws.
cleanup(r, sess, wait, rec, con) ==
  LET s == cleanupSync(r)
  IN  CASE s.audioContext = "open" ->
             /\ refs' = [s EXCEPT !.audioContext = "closing"]
             /\ closing' = closing + 1
             /\ session' = sess
             /\ awaitingSession' = wait
             /\ isRecording' = rec
             /\ isConnecting' = con
        [] s.audioContext = "closing" ->
             /\ closing' = closing
             /\ \/ closeSession(s, sess, wait, rec, con)
                \/ /\ refs' = s
                   /\ session' = sess
                   /\ awaitingSession' = wait
                   /\ isRecording' = rec
                   /\ isConnecting' = con
        [] OTHER ->
             /\ closing' = closing
             /\ closeSession(s, sess, wait, rec, con)

\* A click on the button when it shows the microphone: startRecording up to
\* "await getUserMedia".  The button is disabled while isConnecting.  One
\* call of startRecording at a time is followed.
StartRecording ==
  /\ mounted /\ Synced
  /\ ~isConnecting /\ ~isRecording /\ starting = "idle"
  /\ starts < MaxStarts
  /\ isConnecting' = TRUE
  /\ refs' = [refs EXCEPT !.audioContext = "open"]
  /\ starting' = "getUserMedia"
  /\ handlerStep' = step
  /\ starts' = starts + 1
  /\ outcome' = "pending"
  /\ UNCHANGED <<isRecording, session, closing, awaitingSession, lingering, detached,
                 voiceAlerts, heard, mounted>>
  /\ UNCHANGED <<wizard, ui, closure, pending, history, plotInput, outsideVoice>>

\* getUserMedia resolves: startRecording goes on to ai.live.connect and
\* returns.  A session that sessionRef referred to and that is still open
\* is referred to no more.
MicGranted ==
  /\ mounted /\ Synced /\ starting = "getUserMedia"
  /\ refs' = [refs EXCEPT !.stream = TRUE, !.session = TRUE]
  /\ session' = "connecting"
  /\ lingering' = IF session = "open" THEN lingering \cup {handlerStep} ELSE lingering
  /\ starting' = "idle"
  /\ outcome' = "granted"
  /\ UNCHANGED <<isRecording, isConnecting, handlerStep, closing, awaitingSession, detached,
                 voiceAlerts, starts, heard, mounted>>
  /\ UNCHANGED <<wizard, ui, closure, pending, history, plotInput, outsideVoice>>

\* getUserMedia rejects: the catch block of startRecording.
MicDenied ==
  /\ mounted /\ Synced /\ starting = "getUserMedia"
  /\ voiceAlerts' = voiceAlerts + 1
  /\ cleanup(refs, session, awaitingSession, isRecording, FALSE)
  /\ starting' = "idle"
  /\ outcome' = "denied"
  /\ UNCHANGED <<handlerStep, lingering, detached, starts, heard, mounted>>
  /\ UNCHANGED <<wizard, ui, closure, pending, history, plotInput, outsideVoice>>

\* onopen.  A cleanup that awaits the session closes it at once.
OnOpen ==
  /\ mounted /\ Synced /\ session = "connecting"
  /\ IF awaitingSession
     THEN /\ refs' = [refs EXCEPT !.source = TRUE, !.processor = TRUE, !.session = FALSE]
          /\ session' = "none"
          /\ isRecording' = FALSE
     ELSE /\ refs' = [refs EXCEPT !.source = TRUE, !.processor = TRUE]
          /\ session' = "open"
          /\ isRecording' = TRUE
  /\ isConnecting' = FALSE
  /\ awaitingSession' = FALSE
  /\ UNCHANGED <<starting, handlerStep, closing, lingering, detached, voiceAlerts, starts,
                 outcome, heard, mounted>>
  /\ UNCHANGED <<wizard, ui, closure, pending, history, plotInput, outsideVoice>>

\* onerror: the session is lost, the flags are reset and cleanup is called.
\* A cleanup that awaits the session catches the rejection and resets
\* sessionRef.
OnError ==
  /\ mounted /\ Synced /\ session \in {"connecting", "open"}
  /\ cleanup(IF awaitingSession THEN [refs EXCEPT !.session = FALSE] ELSE refs,
             "none", FALSE, FALSE, FALSE)
  /\ UNCHANGED <<starting, handlerStep, lingering, detached, voiceAlerts, starts, outcome,
                 heard, mounted>>
  /\ UNCHANGED <<wizard, ui, closure, pending, history, plotInput, outsideVoice>>

\* onclose, when the service ends the session: the flags are reset, cleanup
\* is not called.
OnClose ==
  /\ mounted /\ Synced /\ session \in {"connecting", "open"}
  /\ isRecording' = FALSE
  /\ isConnecting' = FALSE
  /\ session' = "none"
  /\ refs' = IF awaitingSession THEN [refs EXCEPT !.session = FALSE] ELSE refs
  /\ awaitingSession' = FALSE
  /\ UNCHANGED <<starting, handlerStep, closing, lingering, detached, voiceAlerts, starts,
                 outcome, heard, mounted>>
  /\ UNCHANGED <<wizard, ui, closure, pending, history, plotInput, outsideVoice>>

\* A click on the button when it shows that it records: stopRecording.
StopRecording ==
  /\ mounted /\ Synced
  /\ isRecording /\ ~isConnecting
  /\ cleanup(refs, session, awaitingSession, FALSE, FALSE)
  /\ UNCHANGED <<starting, handlerStep, lingering, detached, voiceAlerts, starts, outcome,
                 heard, mounted>>
  /\ UNCHANGED <<wizard, ui, closure, pending, history, plotInput, outsideVoice>>

\* cleanup after "await audioContext.close()": audioContextRef is reset,
\* whatever it refers to by now, and cleanup goes on to the session.
ContextClosed ==
  /\ mounted /\ Synced /\ closing > 0
  /\ closing' = closing - 1
  /\ closeSession([refs EXCEPT !.audioContext = "null"], session, awaitingSession,
                  isRecording, isConnecting)
  /\ UNCHANGED <<starting, handlerStep, lingering, detached, voiceAlerts, starts, outcome,
                 heard, mounted>>
  /\ UNCHANGED <<wizard, ui, closure, pending, history, plotInput, outsideVoice>>

\* handleVoiceInput of the render in which state.step was h.
handleVoiceInput(h, text) ==
  /\ inactivityTimer' = 0
  /\ IF h = PLOT
     THEN /\ Len(appendText(plotInput, text)) <= MaxSpoken
          /\ plotInput' = appendText(plotInput, text)
          /\ tempInput' = tempInput
     ELSE /\ Len(appendText(tempInput, text)) <= MaxSpoken
          /\ tempInput' = appendText(tempInput, text)
          /\ plotInput' = plotInput
  /\ Len(heard) < MaxHeard
  /\ heard' = Append(heard, text)
  /\ UNCHANGED <<wizard, isLoading, mode, suggestedOptions, autoSelectCandidate,
                 currentPoints, newBadge, pending, outsideVoice>>
  /\ AfterRender("input")

\* onmessage of the session of the button: onTextReceived is the
\* handleVoiceInput of the render in which startRecording was called, and is
\* called when the text is not empty.
OnMessage ==
  /\ mounted /\ Synced /\ session = "open"
  /\ \E text \in Transcriptions :
       IF text = EmptyText
       THEN UNCHANGED <<wizard, ui, closure, pending, history, plotInput, outsideVoice, heard>>
       ELSE handleVoiceInput(handlerStep, text)
  /\ UNCHANGED <<mounted, isRecording, isConnecting, refs, starting, session, handlerStep,
                 closing, awaitingSession, lingering, detached, voiceAlerts, starts, outcome>>

\* onmessage of a session that no sessionRef refers to.
LateMessage ==
  /\ Synced
  /\ \E h \in lingering, text \in Transcriptions \ {EmptyText} : handleVoiceInput(h, text)
  /\ UNCHANGED <<mounted, isRecording, isConnecting, refs, starting, session, handlerStep,
                 closing, awaitingSession, lingering, detached, voiceAlerts, starts, outcome>>

\* Such a session ends: the cleanup of its button closes it after
\* "await audioContext.close()", or the service ends it.
LingeringClosed ==
  /\ Synced
  /\ \E h \in lingering : lingering' = lingering \ {h}
  /\ UNCHANGED <<mounted, isRecording, isConnecting, refs, starting, session, handlerStep,
                 closing, awaitingSession, detached, voiceAlerts, starts, outcome, heard>>
  /\ UNCHANGED <<wizard, ui, closure, pending, history, plotInput, outsideVoice>>

\* getUserMedia resolves for a button that is gone: its startRecording
\* connects all the same, and no cleanup will close the session.
DetachedMicGranted ==
  /\ Synced
  /\ \E h \in detached :
       /\ detached' = detached \ {h}
       /\ lingering' = lingering \cup {h}
  /\ UNCHANGED <<mounted, isRecording, isConnecting, refs, starting, session, handlerStep,
                 closing, awaitingSession, voiceAlerts, starts, outcome, heard>>
  /\ UNCHANGED <<wizard, ui, closure, pending, history, plotInput, outsideVoice>>

\* getUserMedia rejects for a button that is gone: the alert is shown.
DetachedMicDenied ==
  /\ Synced
  /\ \E h \in detached : detached' = detached \ {h}
  /\ voiceAlerts' = voiceAlerts + 1
  /\ UNCHANGED <<mounted, isRecording, isConnecting, refs, starting, session, handlerStep,
                 closing, awaitingSession, lingering, starts, outcome, heard>>
  /\ UNCHANGED <<wizard, ui, closure, pending, history, plotInput, outsideVoice>>

\* The render that follows a handler of the wizard shows no voice button
\* any more: the effect of the button calls cleanup and the state of the
\* button is gone.  Its open session is closed only after
\* "await audioContext.close()", a session that is still connecting is
\* closed when it opens, and a pending getUserMedia goes on.
Unmount ==
  /\ mounted /\ ~MountCondition
  /\ mounted' = FALSE
  /\ lingering' = IF session = "open" THEN lingering \cup {handlerStep} ELSE lingering
  /\ detached' = IF starting = "getUserMedia" THEN detached \cup {handlerStep} ELSE detached
  /\ isRecording' = FALSE
  /\ isConnecting' = FALSE
  /\ refs' = NoRefs
  /\ starting' = "idle"
  /\ session' = "none"
  /\ handlerStep' = AGE_SELECTION
  /\ closing' = 0
  /\ awaitingSession' = FALSE
  /\ outcome' = "none"
  /\ UNCHANGED <<voiceAlerts, starts, heard>>
  /\ UNCHANGED <<wizard, ui, closure, pending, history, plotInput, outsideVoice>>

\* The render that follows a handler of the wizard shows a voice button.
Mount ==
  /\ ~mounted /\ MountCondition
  /\ mounted' = TRUE
  /\ UNCHANGED <<isRecording, isConnecting, refs, starting, session, handlerStep, closing,
                 awaitingSession, lingering, detached, voiceAlerts, starts, outcome, heard>>
  /\ UNCHANGED <<wizard, ui, closure, pending, history, plotInput, outsideVoice>>

\* onChange of the text area of renderPlotStep
TypePlot ==
  /\ Synced /\ step = PLOT
  /\ \E text \in TypedTexts :
       /\ text # plotInput
       /\ plotInput' = text
  /\ UNCHANGED <<wizard, ui, pending, voice, outsideVoice>>
  /\ AfterRender("user")

\* The handlers of the wizard that need no idle timer
WizardHandler ==
  /\ Synced
  /\ \/ SelectAge
     \/ TypeText
     \/ SubmitText
     \/ SelectionResponse
     \/ ChangeValue
     \/ confirmStep
     \/ CloseBadge

VoiceNext ==
  \/ WizardHandler
  \/ TypePlot
  \/ Mount
  \/ Unmount
  \/ StartRecording
  \/ MicGranted
  \/ MicDenied
  \/ OnOpen
  \/ OnError
  \/ OnClose
  \/ StopRecording
  \/ ContextClosed
  \/ OnMessage
  \/ LateMessage
  \/ LingeringClosed
  \/ DetachedMicGranted
  \/ DetachedMicDenied

VoiceSpec == Init /\ [][VoiceNext]_vars

\* C23: when getUserMedia rejects, startRecording shows an alert and the
\* button is neither connecting nor recording; once the cleanups it called
\* have run, and for as long as the button is not clicked again, it is
\* neither connecting nor recording and none of its references is set.
C23_MicrophoneFailure ==
  /\ [][(mounted /\ starting = "getUserMedia" /\ outcome' = "denied")
          => /\ voiceAlerts' = voiceAlerts + 1
             /\ ~isConnecting' /\ ~isRecording']_vars
  /\ []((mounted /\ outcome = "denied" /\ closing = 0 /\ ~awaitingSession)
          => /\ ~isConnecting /\ ~isRecording
             /\ refs = NoRefs)

\* old is a prefix of new
IsPrefix(old, new) == Len(old) <= Len(new) /\ SubSeq(new, 1, Len(old)) = old

\* new ends with the text t
EndsWith(new, t) ==
  Len(t) <= Len(new) /\ SubSeq(new, Len(new) - Len(t) + 1, Len(new)) = t

\* C21: a fragment handed to onTextReceived is appended to the plot input at
\* the plot step and to the temporary input at every other step: the old
\* content is a prefix of the new one, which ends with the trimmed fragment,
\* a fragment of white space leaves the field as it is, and the other field
\* is not changed.
C21_FragmentToActiveField ==
  [][heard' # heard =>
      LET text == heard'[Len(heard')]
          old == IF step = PLOT THEN plotInput ELSE tempInput
          new == IF step = PLOT THEN plotInput' ELSE tempInput'
      IN  /\ IsPrefix(old, new)
          /\ IF Trim(text) = << >> THEN new = old
             ELSE new # old /\ EndsWith(new, Trim(text))
          /\ IF step = PLOT THEN tempInput' = tempInput ELSE plotInput' = plotInput]_vars

\* ---------------------------------------------------------------------
\* The story editor (StoryEditor)
\* ---------------------------------------------------------------------

MaxEdits == 3

\* The titles typed in the editor
EditedTitles == {<<"t">>}

\* The images that generateImage returns in the editor
RegeneratedImages == {DataUri(d) : d \in ImageData}

\* The texts that generateText returns in the editor
RegeneratedTexts == {generateText(r) : r \in ProseResponses}

\* What the editor leaves alone
outsideEditor ==
  <<wizard, ui, closure, pending, history, story, issued, service, plotInput, away, orphaned,
    voice, user, logins, currentPage, selectedVoice, isPlaying, isLoadingAudio, isDownloading,
    sourceNode, exporting, speaking, stray, downloads, exports, plays, readerAlerts,
    audioContext, speechFor, playingFor>>

\* The updater of regenerateCoverImage: the pages are copied, and the image
\* of the first page, when there is one, becomes the new cover.
regenerateCoverImage(prev, newUrl) ==
  LET newPages == IF Len(prev.pages) > 0
                  THEN [prev.pages EXCEPT ![1] = [@ EXCEPT !.imageUrl = newUrl]]
                  ELSE prev.pages
  IN  [prev EXCEPT !.coverImage = newUrl, !.pages = newPages]

\* Faulty variant of regeneratePageImage: the cover is left as it is.
regeneratePageImageOnly(prev, index, newUrl) ==
  [prev EXCEPT !.pages = [i \in 1..Len(prev.pages) |->
                            IF i = index + 1
                            THEN [prev.pages[i] EXCEPT !.imageUrl = newUrl]
                            ELSE prev.pages[i]]]

\* The updater of regeneratePageImage, for the currentPageIndex of the
\* render in which the button was clicked.
regeneratePageImage(prev, index, newUrl) ==
  LET newPages == [i \in 1..Len(prev.pages) |->
                     IF i = index + 1
                     THEN [prev.pages[i] EXCEPT !.imageUrl = newUrl]
                     ELSE prev.pages[i]]
  IN  [prev EXCEPT !.pages = newPages,
                   !.coverImage = IF index = 0 THEN newUrl ELSE @]

\* The updater of regeneratePageText
regeneratePageText(prev, index, newText) ==
  [prev EXCEPT !.pages = [@ EXCEPT ![index + 1] = [@ EXCEPT !.text = newText]]]

\* handlePageTextChange: the pages of the render are copied, the text of
\* the current one is replaced, and the copy becomes the pages.
handlePageTextChange(rendered, prev, index, text) ==
  [prev EXCEPT !.pages = [rendered.pages EXCEPT ![index + 1] = [@ EXCEPT !.text = text]]]

\* An editor is shown, and the continuation of a regeneration is not
\* waiting to run.
EditorShown == view = "editor" /\ editedStory # NullStory

\* The buttons of the side bar: setActiveTab.  The content tab renders
\* editedStory.pages[currentPageIndex].imageUrl, which throws for a story
\* without pages, and React removes the whole application.
SetActiveTab ==
  /\ EditorShown
  /\ \E tab \in {"cover", "content"} :
       /\ tab # activeTab
       /\ activeTab' = tab
       /\ view' = IF tab = "content" /\ Len(editedStory.pages) = 0 THEN "crashed" ELSE view
  /\ UNCHANGED <<stories, currentStory, editedStory, currentPageIndex, isRegenerating,
                 regenerating, edits, outsideEditor>>

\* A page of the list in the side bar: setCurrentPageIndex
SetCurrentPageIndex ==
  /\ EditorShown /\ activeTab = "content"
  /\ \E idx \in 0..(Len(editedStory.pages) - 1) :
       /\ idx # currentPageIndex
       /\ currentPageIndex' = idx
  /\ UNCHANGED <<view, stories, currentStory, editedStory, activeTab, isRegenerating,
                 regenerating, edits, outsideEditor>>

\* The title field of the cover tab
handleTitleChange ==
  /\ EditorShown /\ activeTab = "cover"
  /\ edits < MaxEdits
  /\ \E title \in EditedTitles :
       /\ title # editedStory.title
       /\ editedStory' = [editedStory EXCEPT !.title = title]
  /\ edits' = edits + 1
  /\ UNCHANGED <<view, stories, currentStory, activeTab, currentPageIndex, isRegenerating,
                 regenerating, outsideEditor>>

\* The text field of the content tab
PageTextChange ==
  /\ EditorShown /\ activeTab = "content"
  /\ edits < MaxEdits
  /\ \E text \in PageTexts :
       /\ text # editedStory.pages[currentPageIndex + 1].text
       /\ editedStory' = handlePageTextChange(editedStory, editedStory, currentPageIndex, text)
  /\ edits' = edits + 1
  /\ UNCHANGED <<view, stories, currentStory, activeTab, currentPageIndex, isRegenerating,
                 regenerating, outsideEditor>>

\* The three regeneration buttons, disabled while isRegenerating, up to
\* their await: the cover's on the cover tab, the page's two on the content
\* tab.
Regenerate ==
  /\ EditorShown /\ ~isRegenerating
  /\ edits < MaxEdits
  /\ \E what \in {"cover", "image", "text"} :
       /\ (what = "cover") = (activeTab = "cover")
       /\ regenerating' = [what |-> what, index |-> currentPageIndex]
  /\ isRegenerating' = TRUE
  /\ edits' = edits + 1
  /\ UNCHANGED <<view, stories, currentStory, editedStory, activeTab, currentPageIndex,
                 outsideEditor>>

\* generateImage or generateText returns to the editor that asked: the
\* updater is applied to the story as it is by now, and the finally block
\* clears isRegenerating.  Neither function rejects, so no catch block runs.
RegenerationSettles ==
  /\ EditorShown /\ regenerating # NoRegeneration
  /\ \E newUrl \in RegeneratedImages, newText \in RegeneratedTexts :
       editedStory' =
         CASE regenerating.what = "cover" -> regenerateCoverImage(editedStory, newUrl)
           [] regenerating.what = "image" ->
                regeneratePageImage(editedStory, regenerating.index, newUrl)
           [] OTHER -> regeneratePageText(editedStory, regenerating.index, newText)
  /\ isRegenerating' = FALSE
  /\ regenerating' = NoRegeneration
  /\ UNCHANGED <<view, stories, currentStory, activeTab, currentPageIndex, edits,
                 outsideEditor>>

\* ---------------------------------------------------------------------
\* App: the views around the wizard
\* ---------------------------------------------------------------------

MaxStories == 2
MaxOrphans == 2
MaxIdle == 3
MaxLogins == 2

\* What App's handlers leave alone when no wizard is unmounted
outsideApp == <<service, away, voice, currentPage, selectedVoice, isPlaying, isLoadingAudio,
                isDownloading, sourceNode, exporting, speaking, stray, downloads, exports,
                plays, readerAlerts, audioContext, speechFor, playingFor, user, logins, edits>>

\* Faulty variant of afterUnmount: the next wizard takes over the requests
\* in flight.
afterUnmountKept(requests) == requests

\* The requests in flight of the wizard that view 'create' renders, once
\* the wizard that issued requests is unmounted: the next StoryWizard is a
\* new component, and the continuations of the old one call the setters of
\* a component that is gone.
afterUnmount(requests) == EmptyBag

\* App stops rendering StoryWizard: its state is gone, the cleanup of the
\* timer effect removes the interval and the listeners, and the next
\* StoryWizard is constructed by useState.
UnmountWizard ==
  /\ BagCardinality(orphaned (+) pending) <= MaxOrphans
  /\ orphaned' = orphaned (+) pending
  /\ pending' = afterUnmount(pending)
  /\ step' = AGE_SELECTION
  /\ ageGroup' = "null"
  /\ character' = NullValue
  /\ place' = NullValue
  /\ time' = NullText
  /\ plotInput' = EmptyText
  /\ generatedPages' = << >>
  /\ isLoading' = FALSE
  /\ inactivityTimer' = 0
  /\ mode' = "input"
  /\ suggestedOptions' = << >>
  /\ autoSelectCandidate' = NullCard
  /\ currentPoints' = 0
  /\ newBadge' = "null"
  /\ tempInput' = EmptyText
  /\ closureOptions' = << >>
  /\ closureCandidate' = NullCard
  /\ pristine' = FALSE
  /\ sinceActivity' = 0
  /\ issued' = EmptyBag
  /\ UNCHANGED <<alerts, outsideApp>>

\* The create button of the dashboard
OpenWizard ==
  /\ user # 0 /\ view = "dashboard"
  /\ view' = "create"
  /\ UNCHANGED <<wizard, ui, closure, pending, history, story, issued, plotInput, orphaned,
                 stories, currentStory, editor, outsideApp>>

\* The exit button of the wizard: onCancel
CancelWizard ==
  /\ view = "create"
  /\ view' = "dashboard"
  /\ UnmountWizard
  /\ UNCHANGED <<stories, currentStory, editedStory, activeTab, currentPageIndex, isRegenerating,
                 regenerating>>

\* The edit and the save button of the preview: handleWizardFinish
handleWizardFinish ==
  /\ view = "create" /\ step = PREVIEW
  /\ Len(stories) < MaxStories
  /\ LET story1 == newStory(Len(stories) + 1, user, character, place, time, generatedPages)
     IN  /\ stories' = <<story1>> \o stories
         /\ \E action \in {"save", "edit"} :
              IF action = "edit"
              THEN currentStory' = story1 /\ view' = "editor" /\ editedStory' = story1
              ELSE currentStory' = currentStory /\ view' = "dashboard"
                   /\ editedStory' = editedStory
  /\ UNCHANGED <<activeTab, currentPageIndex, isRegenerating, regenerating>>
  /\ UnmountWizard

\* The library button of the dashboard
OpenLibrary ==
  /\ user # 0 /\ view = "dashboard"
  /\ view' = "library"
  /\ UNCHANGED <<wizard, ui, closure, pending, history, story, issued, plotInput, orphaned,
                 stories, currentStory, editor, outsideApp>>

\* onBack of the library
LibraryBack ==
  /\ view = "library"
  /\ view' = "dashboard"
  /\ UNCHANGED <<wizard, ui, closure, pending, history, story, issued, plotInput, orphaned,
                 stories, currentStory, editor, outsideApp>>

\* handleEditStory, called by a story card of the library: the editor is
\* constructed with a copy of the story.
handleEditStory ==
  /\ view = "library"
  /\ \E i \in 1..Len(stories) :
       /\ currentStory' = stories[i]
       /\ editedStory' = stories[i]
  /\ view' = "editor"
  /\ UNCHANGED <<wizard, ui, closure, pending, history, story, issued, plotInput, orphaned,
                 stories, activeTab, currentPageIndex, isRegenerating, regenerating,
                 outsideApp>>

\* onDiscard of the editor: App shows the library, and the state of the
\* editor is gone.  currentStory stays.
DiscardEditor ==
  /\ EditorShown
  /\ view' = "library"
  /\ editedStory' = NullStory
  /\ activeTab' = "cover"
  /\ currentPageIndex' = 0
  /\ isRegenerating' = FALSE
  /\ regenerating' = NoRegeneration
  /\ UNCHANGED <<wizard, ui, closure, pending, history, story, issued, plotInput, orphaned,
                 stories, currentStory, outsideApp>>

\* Faulty variant of mapStories: the saved story is put in front.
mapStoriesPrepending(prev, updatedStory) == <<updatedStory>> \o prev

\* The updater of handleSaveEditor:
\* prev.map(s => s.id === updatedStory.id ? updatedStory : s)
mapStories(prev, updatedStory) ==
  [i \in 1..Len(prev) |-> IF prev[i].id = updatedStory.id THEN updatedStory ELSE prev[i]]

\* The save button of the editor: handleSaveEditor(editedStory)
handleSaveEditor ==
  /\ EditorShown
  /\ stories' = mapStories(stories, editedStory)
  /\ currentStory' = NullStory
  /\ view' = "library"
  /\ editedStory' = NullStory
  /\ activeTab' = "cover"
  /\ currentPageIndex' = 0
  /\ isRegenerating' = FALSE
  /\ regenerating' = NoRegeneration
  /\ UNCHANGED <<wizard, ui, closure, pending, history, story, issued, plotInput, orphaned,
                 outsideApp>>

\* The logout button of the dashboard: handleLogout.  The stories stay.
handleLogout ==
  /\ user # 0 /\ view = "dashboard"
  /\ user' = 0
  /\ view' = "dashboard"
  /\ UNCHANGED <<wizard, ui, closure, pending, history, story, issued, plotInput, orphaned,
                 stories, currentStory, logins, service, away, voice, currentPage, selectedVoice,
                 isPlaying, isLoadingAudio, isDownloading, sourceNode, exporting, speaking,
                 stray, downloads, exports, plays, readerAlerts, audioContext, speechFor,
                 playingFor, editor>>

\* Login calls onLogin with a new user, whose id is Date.now(): handleLogin.
\* The number of the login stands for the id.
handleLogin ==
  /\ user = 0
  /\ logins < MaxLogins
  /\ user' = logins + 1
  /\ logins' = logins + 1
  /\ UNCHANGED <<wizard, ui, closure, pending, history, story, issued, plotInput, orphaned,
                 stories, currentStory, view, service, away, voice, currentPage, selectedVoice,
                 isPlaying, isLoadingAudio, isDownloading, sourceNode, exporting, speaking,
                 stray, downloads, exports, plays, readerAlerts, audioContext, speechFor,
                 playingFor, editor>>

\* A request of an unmounted wizard is answered.  generatePage goes on from
\* generateStorySegments to the images of the pages; every other
\* continuation only calls setters, which do nothing for a component that
\* is gone.
OrphanSettles ==
  /\ \E r \in BagToSet(orphaned) :
       orphaned' = (orphaned (-) SetToBag({r})) (+)
                   (IF r.type = "segments"
                    THEN SetToBag({Request("pages", 0, 0, EmptyText)})
                    ELSE EmptyBag)
  /\ UNCHANGED <<wizard, ui, closure, pending, history, story, issued, plotInput, view,
                 stories, currentStory, editedStory, activeTab, currentPageIndex, isRegenerating,
                 regenerating, outsideApp>>

\* The interval of the wizard, followed for MaxIdle seconds
IdleTick == inactivityTimer < MaxIdle /\ Tick

\* The handlers of the wizard while App renders it
WizardShown ==
  /\ view = "create"
  /\ \/ SelectAge
     \/ IdleTick
     \/ TypeText
     \/ SubmitText
     \/ SelectionResponse
     \/ ChangeValue
     \/ confirmStep
     \/ CloseBadge
     \/ GeneratePage
     \/ SegmentsResponse
     \/ PagesResponse

AppNext ==
  \/ WizardShown
  \/ OpenWizard
  \/ CancelWizard
  \/ handleWizardFinish
  \/ OpenLibrary
  \/ LibraryBack
  \/ handleEditStory
  \/ DiscardEditor
  \/ handleSaveEditor
  \/ OrphanSettles

AppSpec == Init /\ [][AppNext]_vars

\* The wizard that App shows first, used with the keyboard alone, Enter in
\* the empty text field included, and no interval followed
EnterNext ==
  \/ SelectAge
  \/ TypeText
  \/ SubmitText
  \/ PressEnter
  \/ SelectionResponse
  \/ ChangeValue
  \/ confirmStep
  \/ CloseBadge
  \/ GeneratePage
  \/ SegmentsResponse
  \/ PagesResponse

EnterSpec == Init /\ [][EnterNext]_vars

\* The libraries the editor is opened from: a story of MaxPages pages and
\* a later one of one page or, made from an empty list of segments, of none.
EditorLibraries ==
  {<<b, a>> : a \in StoriesOf(1, MaxPages), b \in StoriesOf(2, 0) \cup StoriesOf(2, 1)}

\* The library is shown.
EditorInit ==
  /\ Constructed
  /\ user = 1 /\ logins = 1
  /\ view = "library"
  /\ currentStory = NullStory
  /\ stories \in EditorLibraries

EditorNext ==
  \/ handleEditStory
  \/ SetActiveTab
  \/ SetCurrentPageIndex
  \/ handleTitleChange
  \/ PageTextChange
  \/ Regenerate
  \/ RegenerationSettles
  \/ DiscardEditor
  \/ handleSaveEditor

EditorSpec == EditorInit /\ [][EditorNext]_vars

\* The account: logout and login around the library and the editor's entry
\* and exits
AccountNext ==
  \/ OpenLibrary
  \/ LibraryBack
  \/ handleEditStory
  \/ DiscardEditor
  \/ handleSaveEditor
  \/ handleLogout
  \/ handleLogin

AccountSpec == EditorInit /\ [][AccountNext]_vars

\* C34: the cover of a story with a page is the image of its first page, in
\* the editor at every moment and in the library.
C34_CoverIsFirstPage ==
  /\ (EditorShown /\ Len(editedStory.pages) > 0)
       => editedStory.coverImage = editedStory.pages[1].imageUrl
  /\ \A i \in 1..Len(stories) :
       Len(stories[i].pages) > 0 => stories[i].coverImage = stories[i].pages[1].imageUrl

\* The editor shows a story of two pages whose cover and whose second page
\* have been drawn again, with different images.
C34_Witness ==
  /\ EditorShown /\ Len(editedStory.pages) = 2
  /\ regenerating = NoRegeneration
  /\ editedStory.coverImage = DataUri("REVG")
  /\ editedStory.pages[1].imageUrl = DataUri("REVG")
  /\ editedStory.pages[2].imageUrl = DataUri("QUJD")

\* C35: Save puts the edited story in the place of the story with its id,
\* which is one story, and leaves the other stories, their order and their
\* number as they are; Discard leaves the list as it is, and so does every
\* step inside the editor.
C35_SaveReplacesOneStory ==
  /\ [][(EditorShown /\ view' = "library" /\ currentStory' = NullStory)
          => /\ Len(stories') = Len(stories)
             /\ Cardinality({i \in 1..Len(stories) : stories[i].id = editedStory.id}) = 1
             /\ \A i \in 1..Len(stories) :
                  stories'[i] = IF stories[i].id = editedStory.id
                                THEN editedStory ELSE stories[i]]_vars
  /\ [][(EditorShown /\ view' = "library" /\ currentStory' # NullStory)
          => stories' = stories]_vars
  /\ [][(EditorShown /\ view' # "library") => stories' = stories]_vars

\* The second story of the library has been saved with a new title and a
\* new first image, the first one is as it was, and the editor is open
\* again with a title that has not been saved.
C35_Witness ==
  /\ EditorShown /\ edits = MaxEdits
  /\ Len(stories) = 2
  /\ stories[2].title = <<"t">> /\ stories[2].coverImage \in RegeneratedImages
  /\ stories[1].title # <<"t">> /\ stories[1].coverImage = "data:image"
  /\ editedStory.id = stories[1].id /\ editedStory.title = <<"t">>

\* C32: at the plot step, while nothing is loading, a click on the generate
\* button starts a generation: the first statement of generatePage does
\* not return, because character, place and time are all set.
C32_GenerationNeverBlocked ==
  (view = "create" /\ step = PLOT /\ ~isLoading) => ~returnsAtOnce(character, place, time)

\* C33: the story shown at the preview has at least one page, and so has
\* every story of the library.
C33_StoriesHavePages ==
  /\ (view = "create" /\ step = PREVIEW) => Len(generatedPages) >= 1
  /\ \A i \in 1..Len(stories) : Len(stories[i].pages) >= 1

\* C38: every story that the library shows was created by the user who is
\* logged in.
C38_StoriesOfCurrentUser ==
  (user # 0 /\ view = "library") => \A i \in 1..Len(stories) : stories[i].authorId = user

\* The state a StoryWizard is constructed with
WizardConstructed ==
  /\ step = AGE_SELECTION
  /\ ageGroup = "null" /\ character = NullValue /\ place = NullValue /\ time = NullText
  /\ plotInput = EmptyText /\ generatedPages = << >>
  /\ mode = "input" /\ inactivityTimer = 0
  /\ ~isLoading /\ tempInput = EmptyText /\ pending = EmptyBag

\* C22: when the wizard is opened it is in the state it is constructed
\* with, whatever an earlier wizard did, and it stays so for as long as it
\* is at the age selection with its counter at 0; the answer to a request of
\* an earlier wizard changes nothing of the wizard shown.
C22_WizardStateDestroyed ==
  /\ [][(view # "create" /\ view' = "create") => WizardConstructed']_vars
  /\ []((view = "create" /\ step = AGE_SELECTION /\ inactivityTimer = 0) => WizardConstructed)
  /\ [][orphaned' # orphaned /\ view' = view
          => UNCHANGED <<wizard, ui, closure, pending, history, story, issued, plotInput>>]_vars

\* A wizard was left at the preview and its story is in the library,
\* another one was left while its generation was under way, and a third is
\* shown and has gone on to the character step while the request of the
\* second is still in flight.
C22_Witness ==
  /\ view = "create" /\ step = CHARACTER
  /\ Len(stories) = 1
  /\ \E r \in BagToSet(orphaned) : r.type \in {"segments", "pages"}

\* ---------------------------------------------------------------------
\* The wizard left to itself
\* ---------------------------------------------------------------------

\* The wizard waits for a value at a collection step: none is committed, the
\* text field is empty and nothing is loading.
Waiting ==
  /\ step \in activeSteps /\ ~hasValue
  /\ tempInput = EmptyText /\ ~isLoading

\* From a waiting wizard the user goes away: no handler of the user is
\* called any more.
WalkAway ==
  /\ ~away /\ Waiting
  /\ away' = TRUE
  /\ UNCHANGED <<wizard, ui, closure, pending, history, story, issued, service, plotInput,
                 shell, voice, reader, editor>>

\* The interval callback past the last threshold: it only counts.  The
\* counter has no bound in the code; its values above MaxTimer are folded
\* onto MaxTimer - 1 and MaxTimer, which are above AutoSelectAt as well.
TickOn ==
  /\ TimerRunning
  /\ inactivityTimer = MaxTimer
  /\ inactivityTimer' = MaxTimer - 1
  /\ UNCHANGED <<wizard, isLoading, mode, suggestedOptions, autoSelectCandidate,
                 currentPoints, newBadge, tempInput, pending>>
  /\ UNCHANGED <<story, issued, rest>>
  /\ AfterRender("tick")

\* What the user does while there
UserHandler ==
  /\ ~away
  /\ \/ SelectAge
     \/ ClickOption
     \/ ConfirmYes
     \/ ConfirmNo
     \/ ChangeValue
     \/ confirmStep
     \/ CloseBadge

\* The interval, which fires every second while the timer effect is
\* installed
Interval == Tick \/ TickOn

\* The continuations of the requests in flight
Response == SuggestionsResponse \/ OptionImageResponse \/ SelectionResponse

IdleNext ==
  \/ UserHandler
  \/ WalkAway
  \/ Interval
  \/ Response

\* The browser fires the interval for as long as it is installed, and every
\* request is answered: the functions of the service catch every failure.
IdleSpec ==
  /\ Init
  /\ [][IdleNext]_vars
  /\ WF_vars(Interval)
  /\ WF_vars(Response)

\* C29: once the user has left a waiting wizard to itself, a value is
\* committed at the step.
C29_AutoSelectEventually == away ~> hasValue
\* ---------------------------------------------------------------------
\* Requests in flight and the loading flag
\* ---------------------------------------------------------------------

\* The calls of handleSelection and generatePage that are waiting for the
\* service.
Loading(requests) ==
  {r \in BagToSet(requests) : r.type \in {"selection", "segments", "pages"}}

\* C31: at most one selection request is in flight, and isLoading is true
\* exactly while a selection or a story generation is in flight.
C31_LoadingWhileInFlight ==
  /\ \A r \in BagToSet(pending) : r.type = "selection" => CopiesIn(r, pending) = 1
  /\ Cardinality({r \in BagToSet(pending) : r.type = "selection"}) <= 1
  /\ isLoading <=> Loading(pending) # {}

====
